---------------------------- MODULE Spec2Model ----------------------------
(***************************************************************************)
(* StrategiX Agent: the multi-source collection pipeline                   *)
(* (data_collector/*.py), the relevance filter, and the pipeline runners   *)
(* (app.py, main_optimized.py, main.py).                                   *)
(*                                                                         *)
(* Python strings are sequences of one-character strings; a dict is the    *)
(* ordered sequence of its items [k |-> key, v |-> value] (Python dicts    *)
(* keep insertion order, and str(dict) prints the items in that order).    *)
(***************************************************************************)
EXTENDS Integers, Sequences, FiniteSets, TLC

VARIABLES
    collectors,        \* MultiSourceDataCollector.collectors: registered source names, in order
    research_config,   \* the request: name, research_type, original_topic, keywords
    api,               \* what each external endpoint answers in this run
    now,               \* the wall clock read by datetime.now()
    pc,                \* position of collect_data
    all_data,          \* result of collect_all_data: ordered items [k |-> source, v |-> records]
    merged_data,       \* result of merge_data_by_topic
    relevant_data,     \* result of filter_relevant_data (what collect_data returns)
    runner,            \* which entry point runs the pipeline: "web", "optimized", "main"
    agent,             \* app.py's global agent is set (initialize_agent succeeded)
    llm,               \* the language model: "unavailable", "ok" or "failing"
    rpc,               \* position of the runner
    session_id,        \* the id start_analysis gave the run
    analysis_progress, \* app.py global: session id -> last reported progress entry
    analysis_status,   \* app.py global: session id -> 'running', 'completed', 'error'
    research_configs,  \* app.py global: session id -> stored results
    data_records,      \* the runner's local list of records
    forwarded,         \* the list the runner passed to analyze_data
    analyses,          \* what analyze_data returned
    summary,           \* what generate_summary returned
    reported,          \* the steps the run wrote to analysis_progress, in order
    threads,           \* the analysis threads start_analysis started, in order: [sid, pc, n]
    saved,             \* the session ids for which save_results has returned
    analysis_results,  \* session['analysis_results'] of the browser session
    gemini_calls,      \* how many times model.generate_content has been called
    rate_limited,      \* a call of model.generate_content has failed with a rate-limit error
    max_results,       \* the configured max_results of each source client
    http_requests,     \* the HTTP requests the source clients have issued, in order
    fetched,           \* source -> how many records its fetch returned
    research_topic,    \* what the user entered: topic, research type, drug name, indication
    fda_query,         \* the search query FDACollector.build_search_query built
    entered,           \* the pipeline stages the run has entered, in order
    fetch_calls        \* source -> how many times the run called its client's fetch

pipeVars == <<collectors, research_config, api, now, pc, all_data, merged_data, relevant_data>>

runVars == <<runner, agent, llm, rpc, session_id, analysis_progress, analysis_status,
             research_configs, data_records, forwarded, analyses, summary, reported,
             threads, saved, analysis_results, gemini_calls, rate_limited,
             max_results, http_requests, fetched, research_topic, fda_query, entered,
             fetch_calls>>

vars == <<pipeVars, runVars>>

-----------------------------------------------------------------------------
(* Text *)

Uppers == <<"A","B","C","D","E","F","G","H","I","J","K","L","M",
            "N","O","P","Q","R","S","T","U","V","W","X","Y","Z">>
Lowers == <<"a","b","c","d","e","f","g","h","i","j","k","l","m",
            "n","o","p","q","r","s","t","u","v","w","x","y","z">>

\* str.lower() on one character
LowerChar(c) ==
    IF \E i \in 1..Len(Uppers) : Uppers[i] = c
    THEN Lowers[CHOOSE i \in 1..Len(Uppers) : Uppers[i] = c]
    ELSE c

\* str.lower()
Lower(s) == [i \in 1..Len(s) |-> LowerChar(s[i])]

\* Python's substring test: k in t
Contains(t, k) ==
    \E i \in 0..(Len(t) - Len(k)) : \A j \in 1..Len(k) : t[i + j] = k[j]

\* The value None; no string equals it (strings hold one-character items only).
PyNone == <<"None">>

\* repr() of a value stored in a record: a quoted string, or None
Repr(v) == IF v = PyNone THEN <<"N","o","n","e">> ELSE <<"'">> \o v \o <<"'">>

\* The characters of the dict keys used by the collectors.
KeyText ==
    [nctId |-> <<"n","c","t","I","d">>,
     briefTitle |-> <<"b","r","i","e","f","T","i","t","l","e">>,
     overallStatus |-> <<"o","v","e","r","a","l","l","S","t","a","t","u","s">>,
     pmid |-> <<"p","m","i","d">>,
     title |-> <<"t","i","t","l","e">>,
     fda_id |-> <<"f","d","a","_","i","d">>,
     drug_name |-> <<"d","r","u","g","_","n","a","m","e">>,
     product_name |-> <<"p","r","o","d","u","c","t","_","n","a","m","e">>,
     data_source |-> <<"d","a","t","a","_","s","o","u","r","c","e">>,
     research_area |-> <<"r","e","s","e","a","r","c","h","_","a","r","e","a">>,
     research_type |-> <<"r","e","s","e","a","r","c","h","_","t","y","p","e">>,
     original_topic |-> <<"o","r","i","g","i","n","a","l","_","t","o","p","i","c">>,
     collection_timestamp |-> <<"c","o","l","l","e","c","t","i","o","n","_",
                                "t","i","m","e","s","t","a","m","p">>]

\* The characters of the source names (the keys of collectors and all_data).
SourceText ==
    [clinical_trials |-> <<"c","l","i","n","i","c","a","l","_","t","r","i","a","l","s">>,
     pubmed |-> <<"p","u","b","m","e","d">>,
     fda |-> <<"f","d","a">>]

Digits == <<"0","1","2","3","4","5","6","7","8","9">>

\* str(n) for a natural number
RECURSIVE IntText(_)
IntText(n) ==
    IF n < 10 THEN <<Digits[n + 1]>>
    ELSE IntText(n \div 10) \o <<Digits[(n % 10) + 1]>>

\* datetime.now().isoformat(): the text of the clock reading
isoformat(t) == <<"T">> \o IntText(t)

-----------------------------------------------------------------------------
(* Dicts *)

\* d[k] = v: an existing key keeps its place, a new key is appended
DictSet(d, k, v) ==
    IF \E i \in 1..Len(d) : d[i].k = k
    THEN [i \in 1..Len(d) |-> IF d[i].k = k THEN [k |-> k, v |-> v] ELSE d[i]]
    ELSE Append(d, [k |-> k, v |-> v])

HasKey(d, k) == \E i \in 1..Len(d) : d[i].k = k

\* d.get(k, default)
DictGet(d, k, default) ==
    IF HasKey(d, k) THEN d[CHOOSE i \in 1..Len(d) : d[i].k = k].v ELSE default

RECURSIVE ItemsText(_)
ItemsText(d) ==
    IF d = <<>> THEN <<>>
    ELSE LET item == <<"'">> \o KeyText[d[1].k] \o <<"'", ":", " ">> \o Repr(d[1].v)
         IN  IF Len(d) = 1 THEN item
             ELSE item \o <<",", " ">> \o ItemsText(Tail(d))

\* str(record) of a dict record
PyStr(d) == <<"{">> \o ItemsText(d) \o <<"}">>


-----------------------------------------------------------------------------
(* The relevance test shared by fetch_trials and filter_relevant_data *)

\* [k.lower() for k in research_config['keywords']]
LowerKeywords(rc) == [i \in 1..Len(rc.keywords) |-> Lower(rc.keywords[i])]

\* Mutant of AnyKeywordIn: all() where the code has any().
AllKeywordsIn(keywords, text) ==
    \A i \in 1..Len(keywords) : Contains(text, keywords[i])

\* any(keyword in text for keyword in keywords)
AnyKeywordIn(keywords, text) ==
    \E i \in 1..Len(keywords) : Contains(text, keywords[i])

-----------------------------------------------------------------------------
(* ClinicalTrialsCollector *)

TypeText == [topic |-> <<"t","o","p","i","c">>,
             pipeline |-> <<"p","i","p","e","l","i","n","e">>]

\* The three research fields every source client writes on its records.
StampResearch(record, rc) ==
    DictSet(DictSet(DictSet(record,
        "research_area", rc.name),
        "research_type", TypeText[rc.research_type]),
        "original_topic", rc.original_topic)

\* fetch_trials without its keyword test: every study of the answer is
\* stamped and returned.
fetch_trials_unfiltered(rc, resp) ==
    IF ~resp.ok THEN <<>>
    ELSE [i \in 1..Len(resp.items) |-> StampResearch(resp.items[i], rc)]

\* fetch_trials: a transport failure gives []; otherwise the studies in which a
\* keyword occurs, each stamped with the research fields.
fetch_trials(rc, resp) ==
    IF ~resp.ok THEN <<>>
    ELSE LET keywords == LowerKeywords(rc)
             filtered_studies ==
                 SelectSeq(resp.items,
                           LAMBDA study : AnyKeywordIn(keywords, Lower(PyStr(study))))
         IN  [i \in 1..Len(filtered_studies) |-> StampResearch(filtered_studies[i], rc)]

fetch_trials_for_research(rc, resp) == fetch_trials(rc, resp)

ActiveStatuses ==
    <<(<<"r","e","c","r","u","i","t","i","n","g">>),
      (<<"a","c","t","i","v","e">>),
      (<<"e","n","r","o","l","l","i","n","g">>)>>

\* status_module.get('overallStatus', ''): '' when the status section is missing
OverallStatus(trial) == DictGet(trial, "overallStatus", <<>>)

\* filter_active_trials. It has no try block: a status of None makes
\* .lower() raise, and the exception leaves the function.
filter_active_trials(trials) ==
    IF \E i \in 1..Len(trials) : OverallStatus(trials[i]) = PyNone
    THEN [raised |-> TRUE, value |-> <<>>]
    ELSE [raised |-> FALSE,
          value |-> SelectSeq(trials,
                       LAMBDA trial : AnyKeywordIn(ActiveStatuses,
                                                   Lower(OverallStatus(trial))))]

-----------------------------------------------------------------------------
(* PubMedCollector *)

\* _parse_pubmed_article: the dict built from one article of the response
parse_pubmed_article(raw) ==
    <<[k |-> "pmid", v |-> raw.id],
      [k |-> "title", v |-> raw.text],
      [k |-> "data_source", v |-> SourceText["pubmed"]]>>

\* PubMedCollector.fetch_data_for_research: search_pubmed and
\* fetch_article_details catch every error and give [], and so does this method.
pubmed_fetch_data_for_research(rc, resp) ==
    IF ~resp.ok THEN <<>>
    ELSE [i \in 1..Len(resp.items) |->
             StampResearch(parse_pubmed_article(resp.items[i]), rc)]

-----------------------------------------------------------------------------
(* FDACollector *)

FdaSourceText ==
    [approvals |-> <<"f","d","a","_","a","p","p","r","o","v","a","l","s">>,
     safety |-> <<"f","d","a","_","s","a","f","e","t","y">>,
     recalls |-> <<"f","d","a","_","r","e","c","a","l","l","s">>]

parse_drug_approval(raw, rc) ==
    <<[k |-> "fda_id", v |-> raw.id],
      [k |-> "drug_name", v |-> raw.text],
      [k |-> "data_source", v |-> FdaSourceText["approvals"]],
      [k |-> "research_area", v |-> rc.name],
      [k |-> "research_type", v |-> TypeText[rc.research_type]],
      [k |-> "original_topic", v |-> rc.original_topic]>>

parse_safety_data(raw, rc) ==
    <<[k |-> "fda_id", v |-> raw.id],
      [k |-> "drug_name", v |-> raw.text],
      [k |-> "data_source", v |-> FdaSourceText["safety"]],
      [k |-> "research_area", v |-> rc.name],
      [k |-> "research_type", v |-> TypeText[rc.research_type]],
      [k |-> "original_topic", v |-> rc.original_topic]>>

parse_recall_data(raw, rc) ==
    <<[k |-> "fda_id", v |-> raw.id],
      [k |-> "product_name", v |-> raw.text],
      [k |-> "data_source", v |-> FdaSourceText["recalls"]],
      [k |-> "research_area", v |-> rc.name],
      [k |-> "research_type", v |-> TypeText[rc.research_type]],
      [k |-> "original_topic", v |-> rc.original_topic]>>

fetch_drug_approvals(rc, resp) ==
    IF ~resp.ok THEN <<>>
    ELSE [i \in 1..Len(resp.items) |-> parse_drug_approval(resp.items[i], rc)]

fetch_safety_data(rc, resp) ==
    IF ~resp.ok THEN <<>>
    ELSE [i \in 1..Len(resp.items) |-> parse_safety_data(resp.items[i], rc)]

fetch_recalls(rc, resp) ==
    IF ~resp.ok THEN <<>>
    ELSE [i \in 1..Len(resp.items) |-> parse_recall_data(resp.items[i], rc)]

\* FDACollector.fetch_data_for_research: approvals, then safety, then recalls
fda_fetch_data_for_research(rc, resp) ==
    fetch_drug_approvals(rc, resp.approvals)
        \o fetch_safety_data(rc, resp.safety)
        \o fetch_recalls(rc, resp.recalls)

-----------------------------------------------------------------------------
(* MultiSourceDataCollector *)

\* __init__: one collector per source named under config['data_collection'],
\* registered in the order clinical_trials, pubmed, fda.
RegistrationOrder == <<"clinical_trials", "pubmed", "fda">>

Registered(configured) ==
    SelectSeq(RegistrationOrder, LAMBDA s : s \in configured)

\* Mutant of CollectSource: a source whose transport failed, or whose status
\* filter raised, leaves a record of the error in place of the empty list.
CollectSource_marked(source_name, rc, answers) ==
    LET error == <<(<<[k |-> "error", v |-> <<"E">>]>>)>>
    IN  IF source_name = "clinical_trials"
        THEN LET active == filter_active_trials(
                               fetch_trials_for_research(rc, answers.clinical_trials))
             IN  IF ~answers.clinical_trials.ok \/ active.raised THEN error
                 ELSE active.value
        ELSE IF source_name = "pubmed"
        THEN IF ~answers.pubmed.ok THEN error
             ELSE pubmed_fetch_data_for_research(rc, answers.pubmed)
        ELSE IF ~answers.fda.approvals.ok /\ ~answers.fda.safety.ok
                    /\ ~answers.fda.recalls.ok
        THEN error
        ELSE fda_fetch_data_for_research(rc, answers.fda)

\* One pass of the loop of collect_all_data: the source's records, or [] when
\* anything raised inside the try block.
CollectSource(source_name, rc, answers) ==
    IF source_name = "clinical_trials"
    THEN LET data == fetch_trials_for_research(rc, answers.clinical_trials)
             active == filter_active_trials(data)
         IN  IF active.raised THEN <<>> ELSE active.value
    ELSE IF source_name = "pubmed"
    THEN pubmed_fetch_data_for_research(rc, answers.pubmed)
    ELSE fda_fetch_data_for_research(rc, answers.fda)

\* Mutant of collect_all_data: no try block in the loop, so the first source
\* that raises ends the collection and the sources after it are never asked.
collect_all_data_abort(registered, rc, answers) ==
    LET raises(source_name) ==
            /\ source_name = "clinical_trials"
            /\ filter_active_trials(
                   fetch_trials_for_research(rc, answers.clinical_trials)).raised
        n == IF \E i \in 1..Len(registered) : raises(registered[i])
             THEN (CHOOSE i \in 1..Len(registered) :
                      /\ raises(registered[i])
                      /\ \A j \in 1..(i - 1) : ~raises(registered[j])) - 1
             ELSE Len(registered)
    IN  [i \in 1..n |->
            [k |-> registered[i], v |-> CollectSource(registered[i], rc, answers)]]

collect_all_data(registered, rc, answers) ==
    [i \in 1..Len(registered) |->
        [k |-> registered[i], v |-> CollectSource(registered[i], rc, answers)]]

\* Mutant of fetch_counts: a source that gave nothing is asked a second time.
fetch_counts_retry(registered, rc, answers) ==
    [i \in 1..Len(registered) |->
        [k |-> registered[i],
         v |-> IF CollectSource(registered[i], rc, answers) = <<>> THEN 2 ELSE 1]]

\* The loop of collect_all_data seen as calls: one pass per registered source,
\* one call of the client's fetch in the pass, whatever the call gives.
fetch_counts(registered, rc, answers) ==
    [i \in 1..Len(registered) |-> [k |-> registered[i], v |-> 1]]

\* The five fields merge_data_by_topic writes on a record.
StampMerge(record, source_name, rc, t) ==
    DictSet(DictSet(DictSet(DictSet(DictSet(record,
        "data_source", SourceText[source_name]),
        "research_area", rc.name),
        "research_type", TypeText[rc.research_type]),
        "original_topic", rc.original_topic),
        "collection_timestamp", isoformat(t))

\* Mutant of merge_data_by_topic: the sources are merged last to first.
RECURSIVE merge_data_by_topic_reversed(_, _, _)
merge_data_by_topic_reversed(data, rc, t) ==
    IF data = <<>> THEN <<>>
    ELSE merge_data_by_topic_reversed(Tail(data), rc, t)
             \o [i \in 1..Len(data[1].v) |-> StampMerge(data[1].v[i], data[1].k, rc, t)]

RECURSIVE merge_data_by_topic(_, _, _)
merge_data_by_topic(data, rc, t) ==
    IF data = <<>> THEN <<>>
    ELSE [i \in 1..Len(data[1].v) |-> StampMerge(data[1].v[i], data[1].k, rc, t)]
             \o merge_data_by_topic(Tail(data), rc, t)

\* Mutant of filter_relevant_data: a relevant record is appended twice.
filter_relevant_data_twice(data, rc) ==
    LET kept == SelectSeq(data,
                    LAMBDA record : AnyKeywordIn(LowerKeywords(rc), Lower(PyStr(record))))
    IN  kept \o kept

\* Mutant of filter_relevant_data: the loop starts at the second record.
filter_relevant_data_skip(data, rc) ==
    IF data = <<>> THEN <<>>
    ELSE SelectSeq(Tail(data),
             LAMBDA record : AnyKeywordIn(LowerKeywords(rc), Lower(PyStr(record))))

filter_relevant_data(data, rc) ==
    LET keywords == LowerKeywords(rc)
    IN  SelectSeq(data, LAMBDA record : AnyKeywordIn(keywords, Lower(PyStr(record))))

\* get_data_summary: per source, the count and 'success' or 'no_data'
get_data_summary(data) ==
    [i \in 1..Len(data) |->
        [source |-> data[i].k,
         record_count |-> Len(data[i].v),
         status |-> IF data[i].v # <<>> THEN "success" ELSE "no_data"]]

-----------------------------------------------------------------------------
(* The inputs of a run: the request and what the external endpoints answer *)

MaxPerSource == 2      \* records one endpoint answers with, at most

SeqsUpTo(S, n) == UNION {[1..m -> S] : m \in 0..n}

Ka == <<"K","a">>
Zed == <<"z">>
Recruiting == <<"R","E","C","R","U","I","T","I","N","G">>
Completed == <<"C","O","M","P","L","E","T","E","D">>

\* A study of the registry's JSON answer. The identification and status
\* sections are flattened to the three values the code reads.
Study(id, title, status) ==
    <<[k |-> "nctId", v |-> id],
      [k |-> "briefTitle", v |-> title],
      [k |-> "overallStatus", v |-> status]>>

\* A study whose status section is missing.
StudyNoStatus(id, title) ==
    <<[k |-> "nctId", v |-> id], [k |-> "briefTitle", v |-> title]>>

Studies ==
    {Study(<<"1">>, Ka, Recruiting),
     Study(<<"2">>, Zed, Recruiting),
     Study(<<"3">>, Ka, Completed)}

\* Malformed payloads: a null status, a missing status section.
OddStudyLists ==
    {<<Study(<<"4">>, Ka, PyNone)>>,
     <<Study(<<"1">>, Ka, Recruiting), Study(<<"4">>, Ka, PyNone)>>,
     <<StudyNoStatus(<<"5">>, Ka), Study(<<"1">>, Ka, Recruiting)>>}

Articles == {[id |-> <<"7">>, text |-> Ka], [id |-> <<"8">>, text |-> Zed]}

Failed == [ok |-> FALSE, items |-> <<>>]
Answer(items) == [ok |-> TRUE, items |-> items]

TrialAnswers ==
    {Failed} \cup {Answer(l) : l \in SeqsUpTo(Studies, MaxPerSource) \cup OddStudyLists}

PubmedAnswers == {Failed} \cup {Answer(l) : l \in SeqsUpTo(Articles, MaxPerSource)}

FdaItem(text) == [id |-> <<"9">>, text |-> text]

\* The answers of the three FDA endpoints (label, event, enforcement).
FdaAnswers ==
    {[approvals |-> Failed, safety |-> Failed, recalls |-> Failed],
     [approvals |-> Answer(<<>>), safety |-> Answer(<<>>), recalls |-> Answer(<<>>)],
     [approvals |-> Answer(<<FdaItem(Ka)>>), safety |-> Failed, recalls |-> Answer(<<>>)],
     [approvals |-> Answer(<<FdaItem(Zed)>>), safety |-> Answer(<<FdaItem(Zed)>>),
      recalls |-> Failed],
     [approvals |-> Failed, safety |-> Answer(<<FdaItem(Zed)>>),
      recalls |-> Answer(<<FdaItem(Ka)>>)],
     [approvals |-> Answer(<<FdaItem(Ka)>>), safety |-> Answer(<<FdaItem(Zed)>>),
      recalls |-> Answer(<<FdaItem(Ka)>>)]}

NoFdaAnswer == [approvals |-> Failed, safety |-> Failed, recalls |-> Failed]

\* The endpoints of a source that is not registered are never called.
ApiAnswers(configured) ==
    [clinical_trials : IF "clinical_trials" \in configured THEN TrialAnswers ELSE {Failed},
     pubmed : IF "pubmed" \in configured THEN PubmedAnswers ELSE {Failed},
     fda : IF "fda" \in configured THEN FdaAnswers ELSE {NoFdaAnswer}]

\* config['data_collection']: the sources it names
Configs == {{"clinical_trials", "pubmed", "fda"}, {"clinical_trials", "fda"},
            {"pubmed", "fda"}, {"pubmed"}}

\* research(): the request the web form builds for a topic
WebRequest(topic) ==
    [name |-> topic, research_type |-> "topic", original_topic |-> topic,
     drug_name |-> <<>>, indication |-> <<>>, keywords |-> <<Lower(topic)>>]

\* A request with the keywords a keyword provider returned.
Request(topic, keywords) ==
    [name |-> topic, research_type |-> "topic", original_topic |-> topic,
     drug_name |-> <<>>, indication |-> <<>>, keywords |-> keywords]

Requests ==
    {WebRequest(Ka),
     Request(<<"Q">>, <<>>),
     Request(<<"Q">>, <<(<<"x">>), (<<"K","A">>)>>)}

-----------------------------------------------------------------------------
(* OptimizedStrategiXAgent.collect_data: collect, merge, filter *)

EmptyDict == [key \in {} |-> <<>>]

\* Nothing entered yet, no query built yet.
NoInput == [topic |-> <<>>, research_type |-> "none", drug_name |-> <<>>, indication |-> <<>>]
NoQuery == [op |-> "none"]

\* The max_results the clients fall back to (PubMed 50, FDA 100); the
\* registry's has no fallback and is configured as its page maximum.
DefaultMaxResults == [clinical_trials |-> 100, pubmed |-> 50, fda |-> 100]

\* The state of a runner that has not started.
RunnerIdle ==
    /\ rpc = "idle"
    /\ session_id = -1
    /\ analysis_progress = EmptyDict
    /\ analysis_status = EmptyDict
    /\ research_configs = EmptyDict
    /\ data_records = <<>>
    /\ forwarded = <<>>
    /\ analyses = <<>>
    /\ summary = ""
    /\ reported = <<>>
    /\ threads = <<>>
    /\ saved = {}
    /\ analysis_results = <<>>
    /\ gemini_calls = 0
    /\ rate_limited = FALSE
    /\ max_results = DefaultMaxResults
    /\ http_requests = <<>>
    /\ fetched = EmptyDict
    /\ research_topic = NoInput
    /\ fda_query = NoQuery
    /\ entered = <<>>
    /\ fetch_calls = EmptyDict

Init ==
    /\ \E c \in Configs : collectors = Registered(c) /\ api \in ApiAnswers(c)
    /\ research_config \in Requests
    /\ now = 0
    /\ pc = "start"
    /\ all_data = <<>>
    /\ merged_data = <<>>
    /\ relevant_data = <<>>
    /\ runner = "optimized"
    /\ agent = TRUE
    /\ llm = "ok"
    /\ RunnerIdle

CollectAllData ==
    /\ pc = "start"
    /\ all_data' = collect_all_data(collectors, research_config, api)
    /\ pc' = "collected"
    /\ UNCHANGED <<collectors, research_config, api, now, merged_data, relevant_data>>
    /\ UNCHANGED runVars

\* The records of all_data and of merged_data are the same objects; after the
\* merge only the lengths of all_data's lists are read (get_data_summary), so
\* all_data keeps the lists as collect_all_data returned them.
MergeDataByTopic ==
    /\ pc = "collected"
    /\ merged_data' = merge_data_by_topic(all_data, research_config, now)
    /\ now' = now + 1
    /\ pc' = "merged"
    /\ UNCHANGED <<collectors, research_config, api, all_data, relevant_data>>
    /\ UNCHANGED runVars
    /\ UNCHANGED runVars

FilterRelevantData ==
    /\ pc = "merged"
    /\ relevant_data' = filter_relevant_data(merged_data, research_config)
    /\ pc' = "filtered"
    /\ UNCHANGED <<collectors, research_config, api, now, all_data, merged_data>>
    /\ UNCHANGED runVars

Next == CollectAllData \/ MergeDataByTopic \/ FilterRelevantData

Spec == Init /\ [][Next]_vars

-----------------------------------------------------------------------------
(* Properties of the collection pipeline *)

RECURSIVE IsSubsequence(_, _)
IsSubsequence(a, b) ==
    IF a = <<>> THEN TRUE
    ELSE IF b = <<>> THEN FALSE
    ELSE IF a[1] = b[1] THEN IsSubsequence(Tail(a), Tail(b))
    ELSE IsSubsequence(a, Tail(b))

\* The fields the collector adds to a record; the rest is the source's payload.
MetaKeys == {"data_source", "research_area", "research_type", "original_topic",
             "collection_timestamp"}

Payload(record) == SelectSeq(record, LAMBDA item : item.k \notin MetaKeys)

\* The native id of a record: its first field (nctId, pmid, fda_id).
NativeId(record) == record[1].v

NativeIds(records) == [i \in 1..Len(records) |-> NativeId(records[i])]

RECURSIVE SumLen(_)
SumLen(data) == IF data = <<>> THEN 0 ELSE Len(data[1].v) + SumLen(Tail(data))

Collected == pc \in {"collected", "merged", "filtered"}
Merged == pc \in {"merged", "filtered"}

\* C1: the filtered list is a sub-sequence of the merged list: every filtered
\* record is a merged record, in the same relative order, none added or
\* duplicated.
C1_FilteredIsSubsequence ==
    pc = "filtered" => IsSubsequence(relevant_data, merged_data)

\* A run in which the filter kept some records and dropped others.
C1_Witness ==
    /\ pc = "filtered"
    /\ relevant_data # <<>>
    /\ Len(relevant_data) < Len(merged_data)

\* C2: a merged record is kept if and only if a lower-cased keyword occurs in
\* the record's own source content (the text of its payload), so relevance
\* depends on that content and the keywords alone.
C2_RelevantIffKeywordInContent ==
    pc = "filtered" =>
        \A i \in 1..Len(merged_data) :
            (\E j \in 1..Len(relevant_data) : relevant_data[j] = merged_data[i])
                <=> AnyKeywordIn(LowerKeywords(research_config),
                                 Lower(PyStr(Payload(merged_data[i]))))

\* C3: with an empty keywords list the filter rejects every record.
C3_EmptyKeywordsEmptyFiltered ==
    (pc = "filtered" /\ research_config.keywords = <<>>) => relevant_data = <<>>

\* A filtered run with no keywords whose merged list held records.
C3_Witness ==
    /\ pc = "filtered"
    /\ research_config.keywords = <<>>
    /\ merged_data # <<>>

\* C4: filtering is idempotent: filtering the filtered list again with the same
\* keywords gives the filtered list.
C4_FilterIdempotent ==
    pc = "filtered" =>
        filter_relevant_data(relevant_data, research_config) = relevant_data

\* A filtered list that is neither empty nor the whole merged list.
C4_Witness ==
    /\ pc = "filtered"
    /\ Len(relevant_data) >= 2
    /\ Len(relevant_data) < Len(merged_data)

\* What the trials source hands the collector: the studies that passed its
\* keyword and active-status narrowing, or the exception of the status filter.
TrialsReturned ==
    filter_active_trials(fetch_trials_for_research(research_config, api.clinical_trials))

\* A source failed: its transport failed (for the FDA source, on all three
\* endpoints), or the status filter of the trials source raised.
SourceFailedWith(source_name, trials) ==
    IF source_name = "clinical_trials"
    THEN ~api.clinical_trials.ok \/ trials.raised
    ELSE IF source_name = "pubmed" THEN ~api.pubmed.ok
    ELSE ~api.fda.approvals.ok /\ ~api.fda.safety.ok /\ ~api.fda.recalls.ok

SourceFailed(source_name) == SourceFailedWith(source_name, TrialsReturned)

ItemIds(resp) == IF resp.ok THEN [i \in 1..Len(resp.items) |-> resp.items[i].id] ELSE <<>>

\* The native ids of the records a source returned to the collector (for the
\* trials source: the studies that passed its narrowing), and none for a
\* failed source.
ReturnedIds(source_name, trials) ==
    IF SourceFailedWith(source_name, trials) THEN <<>>
    ELSE IF source_name = "clinical_trials" THEN NativeIds(trials.value)
    ELSE IF source_name = "pubmed" THEN ItemIds(api.pubmed)
    ELSE ItemIds(api.fda.approvals) \o ItemIds(api.fda.safety) \o ItemIds(api.fda.recalls)

MergedOf(source_name) ==
    SelectSeq(merged_data,
              LAMBDA record : DictGet(record, "data_source", <<>>) = SourceText[source_name])

\* C5: whatever subset of the registered sources fails, the collection
\* completes with one entry per registered source, a failed source's entry is
\* the empty list, and merged holds every record the other sources returned.
C5_FailedSourcesIsolated ==
    Merged =>
        LET trials == TrialsReturned
        IN  /\ [i \in 1..Len(all_data) |-> all_data[i].k] = collectors
            /\ \A i \in 1..Len(all_data) :
                   SourceFailedWith(all_data[i].k, trials) => all_data[i].v = <<>>
            /\ \A i \in 1..Len(collectors) :
                   NativeIds(MergedOf(collectors[i])) = ReturnedIds(collectors[i], trials)

\* A merge after a run in which the trials source raised, a second source
\* failed on transport and a third returned records.
C5_Witness ==
    /\ pc = "merged"
    /\ Len(collectors) = 3
    /\ api.clinical_trials.ok /\ SourceFailed("clinical_trials")
    /\ \E i \in 2..3 : SourceFailed(collectors[i])
    /\ merged_data # <<>>

\* C6: merged is the concatenation of the per-source lists, the sources in
\* the registration order clinical_trials, pubmed, fda and each list in its own
\* order: its length is the sum of the lengths, and no record is dropped,
\* duplicated or reordered.
C6_MergedIsConcatenation ==
    Merged =>
        /\ [i \in 1..Len(all_data) |-> all_data[i].k]
               = SelectSeq(<<"clinical_trials", "pubmed", "fda">>,
                           LAMBDA s : \E i \in 1..Len(all_data) : all_data[i].k = s)
        /\ Len(merged_data) = SumLen(all_data)
        /\ \A i \in 1..Len(all_data) : \A j \in 1..Len(all_data[i].v) :
               LET m == merged_data[SumLen(SubSeq(all_data, 1, i - 1)) + j]
               IN  /\ Payload(m) = Payload(all_data[i].v[j])
                   /\ DictGet(m, "data_source", <<>>) = SourceText[all_data[i].k]

\* A merge of three non-empty lists, one of them holding two different records.
C6_Witness ==
    /\ pc = "merged"
    /\ Len(all_data) = 3
    /\ \A i \in 1..3 : all_data[i].v # <<>>
    /\ \E i \in 1..3 : Len(all_data[i].v) >= 2 /\ all_data[i].v[1] # all_data[i].v[2]

-----------------------------------------------------------------------------
(* The agents: collect_data, analyze_data, generate_summary *)

\* OptimizedStrategiXAgent.collect_data: collect, merge, filter
collect_data(registered, rc, answers, t) ==
    filter_relevant_data(
        merge_data_by_topic(collect_all_data(registered, rc, answers), rc, t), rc)

\* StrategiXAgent.collect_data: the trials source alone, narrowed to the active
\* trials; the status filter's exception is not caught here.
trials_collect_data(rc, answers) ==
    filter_active_trials(fetch_trials_for_research(rc, answers.clinical_trials))

Unknown == <<"U","n","k","n","o","w","n">>

\* ClinicalTrialAnalyzer.analyze_trial: one analysis per record, whatever the
\* model does; a record that is not a trial has no id and no title.
analyze_trial(trial_data, mode) ==
    IF mode = "unavailable"
    THEN [trial_id |-> DictGet(trial_data, "nctId", <<>>),
          title |-> DictGet(trial_data, "briefTitle", <<>>),
          analysis |-> "Basic analysis"]
    ELSE IF mode = "ok"
    THEN [trial_id |-> DictGet(trial_data, "nctId", <<>>),
          title |-> DictGet(trial_data, "briefTitle", <<>>),
          analysis |-> "response.text"]
    ELSE [trial_id |-> DictGet(trial_data, "nctId", <<>>),
          title |-> DictGet(trial_data, "briefTitle", Unknown),
          analysis |-> "Analysis failed:"]

\* OptimizedStrategiXAgent.analyze_data
analyze_data(records, mode) ==
    [i \in 1..Len(records) |-> analyze_trial(records[i], mode)]

\* ClinicalTrialAnalyzer.analyze_trials_batch (StrategiXAgent.analyze_data)
analyze_trials_batch(trials_data, mode) ==
    [i \in 1..Len(trials_data) |-> analyze_trial(trials_data[i], mode)]

generate_landscape_summary_fallback(results) ==
    IF results = <<>> THEN "No trial analyses available for summary generation."
    ELSE "# Competitive Landscape Summary"

\* ClinicalTrialAnalyzer.generate_landscape_summary
generate_landscape_summary(results, mode) ==
    IF mode = "unavailable" THEN generate_landscape_summary_fallback(results)
    ELSE LET valid_analyses ==
                 SelectSeq(results, LAMBDA a : /\ a.title # <<>>
                                               /\ a.analysis # "Analysis failed:")
         IN  IF valid_analyses = <<>>
             THEN "No valid analyses available for summary generation."
             ELSE IF mode = "ok" THEN "response.text"
             ELSE generate_landscape_summary_fallback(results)

-----------------------------------------------------------------------------
(* app.py: the progress entries run_analysis_with_progress writes *)

max_records_to_analyze == 10

Entry(step, progress, message, count) ==
    [step |-> step, progress |-> progress, message |-> message, count |-> count]

NotInitializedProgress == Entry("Error", 0, "Agent not initialized", 0)
StartingProgress == Entry("Starting", 0, "Initializing analysis...", 0)
CollectingProgress ==
    Entry("Data Collection", 10, "Collecting data from multiple sources...", 0)
NoDataProgress == Entry("Error", 0, "No relevant data found", 0)
CollectedProgress(n) ==
    Entry("Data Collection", 30, "Collected {n} records from multiple sources", n)
AnalysisProgress == Entry("Analysis", 40, "Analyzing data with AI...", 0)
LimitedProgress ==
    Entry("Analysis", 40, "Analyzing {n} records (limited for web interface)...",
          max_records_to_analyze)
AnalyzedProgress(n) == Entry("Analysis", 70, "Analyzed {n} records", n)
SummaryProgress ==
    Entry("Summary", 80, "Generating competitive landscape summary...", 0)
SummaryDoneProgress == Entry("Summary", 90, "Summary generated successfully", 0)
SavingProgressMislabelled == Entry("Analysis", 95, "Saving results...", 0)
SavingProgress == Entry("Saving", 95, "Saving results...", 0)
CompleteProgress == Entry("Complete", 100, "Analysis completed successfully!", 0)
ErrorProgress == Entry("Error", 0, "Error: {e}", 0)

\* d[k] = v
Put(d, k, v) == [key \in DOMAIN d \cup {k} |-> IF key = k THEN v ELSE d[key]]

\* data_records[-max_records_to_analyze:] in place of the leading slice
LimitRecordsKeepLast(records) ==
    IF Len(records) > max_records_to_analyze
    THEN SubSeq(records, Len(records) - max_records_to_analyze + 1, Len(records))
    ELSE records

\* data_records[:max_records_to_analyze] when there are more
LimitRecords(records) ==
    IF Len(records) > max_records_to_analyze
    THEN SubSeq(records, 1, max_records_to_analyze)
    ELSE records

-----------------------------------------------------------------------------
(* The runners' inputs *)

MaxRunTrials == 11     \* studies the registry answers a runner with, at most

\* n studies that match the topic and are recruiting, with ids 1..n
RunStudies(n) == [i \in 1..n |-> Study(IntText(i), Ka, Recruiting)]

RunTrialAnswers ==
    {Failed, Answer(<<Study(<<"4">>, Ka, PyNone)>>),
     Answer(<<Study(<<"2">>, Zed, Recruiting), Study(<<"3">>, Ka, Completed)>>)}
        \cup {Answer(RunStudies(n)) : n \in 0..MaxRunTrials}

RunPubmedAnswers ==
    {Failed, Answer(<<[id |-> <<"7">>, text |-> Ka], [id |-> <<"8">>, text |-> Zed]>>)}

RunFdaAnswers ==
    {NoFdaAnswer,
     [approvals |-> Answer(<<FdaItem(Ka)>>), safety |-> Answer(<<FdaItem(Zed)>>),
      recalls |-> Answer(<<FdaItem(Ka)>>)]}

\* The web form's request, or the request get_interactive_research_config
\* returns with the generated keywords.
RunRequest(kind) ==
    IF kind = "web" THEN WebRequest(Ka) ELSE Request(<<"Q">>, <<(<<"k","a">>)>>)

-----------------------------------------------------------------------------
(* The runners: run_analysis_with_progress, OptimizedStrategiXAgent.run,   *)
(* StrategiXAgent.run                                                      *)

InitRun ==
    /\ runner \in {"web", "optimized", "main"}
    /\ agent \in (IF runner = "web" THEN BOOLEAN ELSE {TRUE})
    /\ llm \in {"unavailable", "ok", "failing"}
    /\ collectors = (IF runner = "main" THEN <<"clinical_trials">> ELSE RegistrationOrder)
    /\ research_config = RunRequest(runner)
    /\ api \in [clinical_trials : RunTrialAnswers,
                pubmed : IF runner = "main" THEN {Failed} ELSE RunPubmedAnswers,
                fda : IF runner = "main" THEN {NoFdaAnswer} ELSE RunFdaAnswers]
    /\ now = 0
    /\ pc = "start"
    /\ all_data = <<>>
    /\ merged_data = <<>>
    /\ relevant_data = <<>>
    /\ RunnerIdle

inputVars == <<collectors, research_config, api, pc, all_data, merged_data,
               runner, agent, llm, threads, saved, analysis_results,
               gemini_calls, rate_limited, max_results, http_requests, fetched,
               research_topic, fda_query>>

\* what the run has done so far: the stages entered, the fetches made
historyVars == <<entered, fetch_calls>>

\* The run enters a stage of the pipeline.
Enter(stage) == entered' = Append(entered, stage)

\* analysis_progress[session_id] = entry
Report(entry) ==
    /\ analysis_progress' = Put(analysis_progress, session_id, entry)
    /\ reported' = Append(reported, entry.step)

\* start_analysis: the handler refuses when the agent is not initialized;
\* otherwise it names the run after the clock's second, marks it running and
\* starts the thread.
StartAnalysis ==
    /\ runner = "web" /\ rpc = "idle"
    /\ agent
    /\ session_id' = now
    /\ analysis_status' = Put(analysis_status, now, "running")
    /\ rpc' = "thread"
    /\ UNCHANGED <<inputVars, historyVars, now, relevant_data, analysis_progress, research_configs,
                   data_records, forwarded, analyses, summary, reported>>

\* run_analysis_with_progress, to the first progress entry
ThreadBegin ==
    /\ rpc = "thread"
    /\ IF ~agent
       THEN /\ Report(NotInitializedProgress)
            /\ analysis_status' = Put(analysis_status, session_id, "error")
            /\ rpc' = "done"
       ELSE /\ Report(StartingProgress)
            /\ rpc' = "report_collecting"
            /\ UNCHANGED analysis_status
    /\ UNCHANGED <<inputVars, historyVars, now, relevant_data, session_id, research_configs,
                   data_records, forwarded, analyses, summary>>

ReportCollecting ==
    /\ rpc = "report_collecting"
    /\ Report(CollectingProgress)
    /\ rpc' = "collect"
    /\ UNCHANGED <<inputVars, historyVars, now, relevant_data, session_id, analysis_status,
                   research_configs, data_records, forwarded, analyses, summary>>

\* agent.collect_data and the branch on its result: with no records the
\* thread reports the error step and returns.
CollectData ==
    /\ rpc = "collect"
    /\ LET records == collect_data(collectors, research_config, api, now)
       IN  /\ relevant_data' = records
           /\ data_records' = records
           /\ IF records = <<>>
              THEN Report(NoDataProgress) /\ rpc' = "done"
              ELSE Report(CollectedProgress(Len(records))) /\ rpc' = "report_analysis"
    /\ now' = now + 1
    /\ Enter("collect")
    /\ fetch_calls' = fetch_counts(collectors, research_config, api)
    /\ UNCHANGED <<inputVars, session_id, analysis_status, research_configs,
                   forwarded, analyses, summary>>

ReportAnalysis ==
    /\ rpc = "report_analysis"
    /\ Report(AnalysisProgress)
    /\ rpc' = "limit"
    /\ UNCHANGED <<inputVars, historyVars, now, relevant_data, session_id, analysis_status,
                   research_configs, data_records, forwarded, analyses, summary>>

\* the cap of the web interface
LimitForWeb ==
    /\ rpc = "limit"
    /\ data_records' = LimitRecords(data_records)
    /\ IF Len(data_records) > max_records_to_analyze
       THEN Report(LimitedProgress)
       ELSE UNCHANGED <<analysis_progress, reported>>
    /\ rpc' = "analyze"
    /\ UNCHANGED <<inputVars, historyVars, now, relevant_data, session_id, analysis_status,
                   research_configs, forwarded, analyses, summary>>

AnalyzeData ==
    /\ rpc = "analyze"
    /\ forwarded' = data_records
    /\ analyses' = analyze_data(data_records, llm)
    /\ Report(AnalyzedProgress(Len(analyses')))
    /\ rpc' = "report_summary"
    /\ Enter("analyze")
    /\ UNCHANGED fetch_calls
    /\ UNCHANGED <<inputVars, now, relevant_data, session_id, analysis_status,
                   research_configs, data_records, summary>>

ReportSummary ==
    /\ rpc = "report_summary"
    /\ Report(SummaryProgress)
    /\ rpc' = "summarize"
    /\ UNCHANGED <<inputVars, historyVars, now, relevant_data, session_id, analysis_status,
                   research_configs, data_records, forwarded, analyses, summary>>

GenerateSummary ==
    /\ rpc = "summarize"
    /\ summary' = generate_landscape_summary(analyses, llm)
    /\ Report(SummaryDoneProgress)
    /\ rpc' = "report_saving"
    /\ Enter("summarize")
    /\ UNCHANGED fetch_calls
    /\ UNCHANGED <<inputVars, now, relevant_data, session_id, analysis_status,
                   research_configs, data_records, forwarded, analyses>>

ReportSaving ==
    /\ rpc = "report_saving"
    /\ Report(SavingProgress)
    /\ rpc' = "save"
    /\ UNCHANGED <<inputVars, historyVars, now, relevant_data, session_id, analysis_status,
                   research_configs, data_records, forwarded, analyses, summary>>

\* agent.save_results writes files: it returns, or the file system raises and
\* the handler of the thread reports the error step.
SaveResults ==
    /\ rpc = "save"
    /\ \/ /\ rpc' = "store"
          /\ UNCHANGED <<analysis_progress, reported>>
       \/ /\ Report(ErrorProgress)
          /\ rpc' = "error_status"
    /\ Enter("save")
    /\ UNCHANGED fetch_calls
    /\ UNCHANGED <<inputVars, now, relevant_data, session_id, analysis_status,
                   research_configs, data_records, forwarded, analyses, summary>>

StoreResults ==
    /\ rpc = "store"
    /\ research_configs' =
           Put(research_configs, session_id,
               [data_records_count |-> Len(data_records),
                analyses_count |-> Len(analyses),
                summary |-> summary,
                research_topic |-> research_config.name,
                timestamp |-> isoformat(now)])
    /\ rpc' = "report_complete"
    /\ UNCHANGED <<inputVars, historyVars, now, relevant_data, session_id, analysis_progress,
                   analysis_status, data_records, forwarded, analyses, summary, reported>>

ReportComplete ==
    /\ rpc = "report_complete"
    /\ Report(CompleteProgress)
    /\ rpc' = "set_completed"
    /\ UNCHANGED <<inputVars, historyVars, now, relevant_data, session_id, analysis_status,
                   research_configs, data_records, forwarded, analyses, summary>>

SetCompleted ==
    /\ rpc = "set_completed"
    /\ analysis_status' = Put(analysis_status, session_id, "completed")
    /\ rpc' = "done"
    /\ UNCHANGED <<inputVars, historyVars, now, relevant_data, session_id, analysis_progress,
                   research_configs, data_records, forwarded, analyses, summary, reported>>

SetError ==
    /\ rpc = "error_status"
    /\ analysis_status' = Put(analysis_status, session_id, "error")
    /\ rpc' = "done"
    /\ UNCHANGED <<inputVars, historyVars, now, relevant_data, session_id, analysis_progress,
                   research_configs, data_records, forwarded, analyses, summary, reported>>

webVars == <<session_id, analysis_progress, analysis_status, research_configs, reported>>

\* run(): the request is read from the terminal
CliConfigure ==
    /\ runner \in {"optimized", "main"} /\ rpc = "idle"
    /\ rpc' = "cli_collect"
    /\ UNCHANGED <<inputVars, historyVars, webVars, now, relevant_data, data_records, forwarded,
                   analyses, summary>>

\* run(): collect_data and the branch on its result; an exception leaves run()
CliCollect ==
    /\ rpc = "cli_collect"
    /\ IF runner = "optimized"
       THEN LET records == collect_data(collectors, research_config, api, now)
            IN  /\ relevant_data' = records
                /\ data_records' = records
                /\ rpc' = IF records = <<>> THEN "done" ELSE "cli_analyze"
       ELSE LET result == trials_collect_data(research_config, api)
            IN  /\ relevant_data' = result.value
                /\ data_records' = result.value
                /\ rpc' = IF result.raised THEN "raised"
                          ELSE IF result.value = <<>> THEN "done" ELSE "cli_analyze"
    /\ now' = now + 1
    /\ Enter("collect")
    /\ fetch_calls' = IF runner = "optimized"
                     THEN fetch_counts(collectors, research_config, api)
                     ELSE <<[k |-> "clinical_trials", v |-> 1]>>
    /\ UNCHANGED <<inputVars, webVars, forwarded, analyses, summary>>

CliAnalyze ==
    /\ rpc = "cli_analyze"
    /\ forwarded' = data_records
    /\ analyses' = IF runner = "optimized" THEN analyze_data(data_records, llm)
                   ELSE analyze_trials_batch(data_records, llm)
    /\ rpc' = "cli_summarize"
    /\ Enter("analyze")
    /\ UNCHANGED fetch_calls
    /\ UNCHANGED <<inputVars, webVars, now, relevant_data, data_records, summary>>

CliSummarize ==
    /\ rpc = "cli_summarize"
    /\ summary' = generate_landscape_summary(analyses, llm)
    /\ rpc' = "cli_save"
    /\ Enter("summarize")
    /\ UNCHANGED fetch_calls
    /\ UNCHANGED <<inputVars, webVars, now, relevant_data, data_records, forwarded,
                   analyses>>

CliSave ==
    /\ rpc = "cli_save"
    /\ \/ rpc' = "done"
       \/ rpc' = "raised"
    /\ Enter("save")
    /\ UNCHANGED fetch_calls
    /\ UNCHANGED <<inputVars, webVars, now, relevant_data, data_records, forwarded,
                   analyses, summary>>

NextRun ==
    \/ StartAnalysis \/ ThreadBegin \/ ReportCollecting \/ CollectData
    \/ ReportAnalysis \/ LimitForWeb \/ AnalyzeData \/ ReportSummary
    \/ GenerateSummary \/ ReportSaving \/ SaveResults \/ StoreResults
    \/ ReportComplete \/ SetCompleted \/ SetError
    \/ CliConfigure \/ CliCollect \/ CliAnalyze \/ CliSummarize \/ CliSave

SpecRun == InitRun /\ [][NextRun]_vars

-----------------------------------------------------------------------------
(* Properties of the runners *)

Min(a, b) == IF a < b THEN a ELSE b

\* The runner has handed its records to the analysis, or ended before it could.
PastAnalysis ==
    rpc \in {"report_summary", "summarize", "report_saving", "save", "store",
             "report_complete", "set_completed", "error_status", "done",
             "cli_summarize", "cli_save", "raised"}

\* C7: a run of the web runner that has ended has a terminal status,
\* 'completed' or 'error'; in particular a run that found no records is not
\* left 'running'.
C7_EndedRunHasTerminalStatus ==
    (runner = "web" /\ rpc = "done") =>
        analysis_status[session_id] \in {"completed", "error"}

\* C8: with n records collected, the web runner forwards the first min(n, 10)
\* of them to the analysis, in their order, and when n > 10 the progress entry
\* standing when the analysis is called states the truncated count.
C8_WebForwardsFirstTen ==
    runner = "web" =>
        /\ PastAnalysis =>
               forwarded = SubSeq(relevant_data, 1,
                                  Min(Len(relevant_data), max_records_to_analyze))
        /\ (rpc = "analyze" /\ Len(relevant_data) > max_records_to_analyze) =>
               /\ analysis_progress[session_id].step = "Analysis"
               /\ analysis_progress[session_id].message =
                      "Analyzing {n} records (limited for web interface)..."
               /\ analysis_progress[session_id].count = Len(data_records)
               /\ Len(data_records) = max_records_to_analyze

\* A web run that collected more than ten distinct records and analysed ten.
C8_Witness ==
    /\ runner = "web" /\ rpc = "report_summary"
    /\ Len(relevant_data) > max_records_to_analyze
    /\ Len(forwarded) = max_records_to_analyze
    /\ Len(analyses) = max_records_to_analyze
    /\ \A i, j \in 1..Len(relevant_data) :
           i # j => relevant_data[i] # relevant_data[j]

\* C9: in every runner the list forwarded to the analysis has at most ten
\* records.
C9_EveryRunnerForwardsAtMostTen ==
    Len(forwarded) <= max_records_to_analyze

Stages == <<"Starting", "Data Collection", "Analysis", "Summary", "Saving", "Complete">>

StageRank(step) == CHOOSE i \in 1..Len(Stages) : Stages[i] = step

Passed(step) == \E i \in 1..Len(reported) : reported[i] = step

\* C10: the steps a web run reports follow the order Starting, Data
\* Collection, Analysis, Summary, Saving, Complete: no step is reported after
\* a later one, Complete is reported only after all five others, and Error is
\* reported only after a step that is not terminal, with nothing after it.
C10_StagesInOrder ==
    runner = "web" =>
        /\ \A i \in 1..Len(reported) :
               reported[i] \in {"Error", "Complete"} => i = Len(reported)
        /\ \A i, j \in 1..Len(reported) :
               (i < j /\ reported[j] # "Error") =>
                   StageRank(reported[i]) <= StageRank(reported[j])
        /\ Passed("Complete") =>
               \A k \in 1..(Len(Stages) - 1) : Passed(Stages[k])
        /\ Passed("Error") => Len(reported) > 1

\* A web run that passed every stage before Complete and then reported Error.
C10_Witness ==
    /\ runner = "web"
    /\ Passed("Error")
    /\ \A k \in 1..(Len(Stages) - 1) : Passed(Stages[k])

-----------------------------------------------------------------------------
(* app.py as a server: start_analysis, the analysis threads it starts,     *)
(* get_progress, and the stores they share. The records of a run are       *)
(* held by their number alone.                                             *)

MaxRuns == 2           \* analyses started while the server runs, at most
MaxSeconds == 1        \* seconds the clock moves on one by one, at most

RetentionSeconds == 3600

\* the last second of the clock: the retention window passes at most once
MaxClock == RetentionSeconds + MaxSeconds

\* f"analysis_{int(time.time())}", f"loaded_{int(time.time())}": the prefix and
\* the second; session_id.split('_')[1] reads the second back.
SessionId(prefix, t) == [prefix |-> prefix, t |-> t]

\* the number of records collect_data may return: none, or more than the cap
RecordCounts == {0, max_records_to_analyze + 1}

\* the entry run_analysis_with_progress stores in research_configs, without
\* its timestamp
ResultEntry(n_records, n_analyses) ==
    [data_records_count |-> n_records, analyses_count |-> n_analyses,
     summary |-> "summary", research_topic |-> Ka]

\* load_latest_analysis_results: with a recent summary file in output/, the
\* loaded results are stored under a 'loaded_' id with status 'completed'.
load_latest_analysis_results(found, t) ==
    IF found
    THEN [configs |-> Put(EmptyDict, SessionId("loaded", t), ResultEntry(1, 1)),
          status |-> Put(EmptyDict, SessionId("loaded", t), "completed")]
    ELSE [configs |-> EmptyDict, status |-> EmptyDict]

\* get_progress: the answer to a poll of session_id
get_progress(sid) ==
    IF sid \notin DOMAIN analysis_progress
    THEN [code |-> 404, step |-> "", progress |-> 0, message |-> "Session not found",
          status |-> ""]
    ELSE [code |-> 200,
          step |-> analysis_progress[sid].step,
          progress |-> analysis_progress[sid].progress,
          message |-> analysis_progress[sid].message,
          status |-> IF sid \in DOMAIN analysis_status THEN analysis_status[sid]
                     ELSE "unknown"]

Drop(d, keys) == [key \in DOMAIN d \ keys |-> d[key]]

\* cleanup_old_sessions: the ids are taken from analysis_progress
cleanup_old_sessions(progress, status, configs, current_time) ==
    LET sessions_to_remove ==
            {sid \in DOMAIN progress : current_time - sid.t > RetentionSeconds}
    IN  [progress |-> Drop(progress, sessions_to_remove),
         status |-> Drop(status, sessions_to_remove),
         configs |-> Drop(configs, sessions_to_remove)]

siteFixed == <<collectors, research_config, api, pc, all_data, merged_data, relevant_data,
               runner, agent, llm, rpc, session_id, data_records, forwarded, analyses,
               summary, reported, gemini_calls, rate_limited, max_results,
               http_requests, fetched, research_topic, fda_query, entered, fetch_calls>>

InitSite ==
    /\ collectors = RegistrationOrder
    /\ research_config = WebRequest(Ka)
    /\ api = [clinical_trials |-> Failed, pubmed |-> Failed, fda |-> NoFdaAnswer]
    /\ now = 0
    /\ pc = "start"
    /\ all_data = <<>>
    /\ merged_data = <<>>
    /\ relevant_data = <<>>
    /\ runner = "web"
    /\ agent = TRUE
    /\ llm = "ok"
    /\ rpc = "idle"
    /\ session_id = -1
    /\ data_records = <<>>
    /\ forwarded = <<>>
    /\ analyses = <<>>
    /\ summary = ""
    /\ reported = <<>>
    /\ analysis_progress = EmptyDict
    /\ \E found \in BOOLEAN :
           LET loaded == load_latest_analysis_results(found, now)
           IN  /\ research_configs = loaded.configs
               /\ analysis_status = loaded.status
    /\ threads = <<>>
    /\ saved = {}
    /\ analysis_results = <<>>
    /\ gemini_calls = 0
    /\ rate_limited = FALSE
    /\ max_results = DefaultMaxResults
    /\ http_requests = <<>>
    /\ fetched = EmptyDict
    /\ research_topic = NoInput
    /\ fda_query = NoQuery
    /\ entered = <<>>
    /\ fetch_calls = EmptyDict

\* time.time() moves on: by a second, or by the retention window
Tick ==
    /\ \/ /\ now % RetentionSeconds < MaxSeconds
          /\ now' = now + 1
       \/ /\ now + RetentionSeconds <= MaxClock
          /\ now' = now + RetentionSeconds
    /\ UNCHANGED <<siteFixed, analysis_progress, analysis_status, research_configs,
                   threads, saved, analysis_results>>

\* start_analysis
start_analysis ==
    /\ agent
    /\ Len(threads) < MaxRuns
    /\ LET sid == SessionId("analysis", now)
       IN  /\ analysis_status' = Put(analysis_status, sid, "running")
           /\ threads' = Append(threads, [sid |-> sid, pc |-> "thread", n |-> 0])
    /\ analysis_results' = <<>>
    /\ UNCHANGED <<siteFixed, now, analysis_progress, research_configs, saved>>

\* thread i writes a progress entry and moves on
Reports(i, entry, next) ==
    /\ analysis_progress' = Put(analysis_progress, threads[i].sid, entry)
    /\ threads' = [threads EXCEPT ![i].pc = next]
    /\ UNCHANGED <<siteFixed, now, analysis_status, research_configs, saved,
                   analysis_results>>

At(i, position) == i \in 1..Len(threads) /\ threads[i].pc = position

T_Begin(i) ==
    /\ At(i, "thread")
    /\ Reports(i, StartingProgress, "report_collecting")

T_ReportCollecting(i) ==
    /\ At(i, "report_collecting")
    /\ Reports(i, CollectingProgress, "collect")

T_CollectData(i) ==
    /\ At(i, "collect")
    /\ \E n \in RecordCounts :
           /\ analysis_progress' =
                  Put(analysis_progress, threads[i].sid,
                      IF n = 0 THEN NoDataProgress ELSE CollectedProgress(n))
           /\ threads' = [threads EXCEPT ![i].n = n,
                                         ![i].pc = IF n = 0 THEN "done"
                                                   ELSE "report_analysis"]
    /\ UNCHANGED <<siteFixed, now, analysis_status, research_configs, saved,
                   analysis_results>>

T_ReportAnalysis(i) ==
    /\ At(i, "report_analysis")
    /\ Reports(i, AnalysisProgress, "limit")

T_LimitForWeb(i) ==
    /\ At(i, "limit")
    /\ IF threads[i].n > max_records_to_analyze
       THEN /\ analysis_progress' = Put(analysis_progress, threads[i].sid, LimitedProgress)
            /\ threads' = [threads EXCEPT ![i].n = max_records_to_analyze,
                                          ![i].pc = "analyze"]
       ELSE /\ threads' = [threads EXCEPT ![i].pc = "analyze"]
            /\ UNCHANGED analysis_progress
    /\ UNCHANGED <<siteFixed, now, analysis_status, research_configs, saved,
                   analysis_results>>

T_AnalyzeData(i) ==
    /\ At(i, "analyze")
    /\ Reports(i, AnalyzedProgress(threads[i].n), "report_summary")

T_ReportSummary(i) ==
    /\ At(i, "report_summary")
    /\ Reports(i, SummaryProgress, "summarize")

T_GenerateSummary(i) ==
    /\ At(i, "summarize")
    /\ Reports(i, SummaryDoneProgress, "report_saving")

T_ReportSaving(i) ==
    /\ At(i, "report_saving")
    /\ Reports(i, SavingProgress, "save")

T_SaveResults(i) ==
    /\ At(i, "save")
    /\ \/ /\ saved' = saved \cup {threads[i].sid}
          /\ threads' = [threads EXCEPT ![i].pc = "store"]
          /\ UNCHANGED analysis_progress
       \/ /\ analysis_progress' = Put(analysis_progress, threads[i].sid, ErrorProgress)
          /\ threads' = [threads EXCEPT ![i].pc = "error_status"]
          /\ UNCHANGED saved
    /\ UNCHANGED <<siteFixed, now, analysis_status, research_configs, analysis_results>>

\* The thread goes on to 'completed' without writing research_configs.
T_StoreResultsSkipped(i) ==
    /\ At(i, "store")
    /\ threads' = [threads EXCEPT ![i].pc = "report_complete"]
    /\ UNCHANGED <<siteFixed, now, analysis_progress, analysis_status, research_configs,
                   saved, analysis_results>>

T_StoreResults(i) ==
    /\ At(i, "store")
    /\ research_configs' =
           Put(research_configs, threads[i].sid,
               ResultEntry(threads[i].n, threads[i].n))
    /\ threads' = [threads EXCEPT ![i].pc = "report_complete"]
    /\ UNCHANGED <<siteFixed, now, analysis_progress, analysis_status, saved,
                   analysis_results>>

T_ReportComplete(i) ==
    /\ At(i, "report_complete")
    /\ Reports(i, CompleteProgress, "set_completed")

T_SetCompleted(i) ==
    /\ At(i, "set_completed")
    /\ analysis_status' = Put(analysis_status, threads[i].sid, "completed")
    /\ threads' = [threads EXCEPT ![i].pc = "done"]
    /\ UNCHANGED <<siteFixed, now, analysis_progress, research_configs, saved,
                   analysis_results>>

T_SetError(i) ==
    /\ At(i, "error_status")
    /\ analysis_status' = Put(analysis_status, threads[i].sid, "error")
    /\ threads' = [threads EXCEPT ![i].pc = "done"]
    /\ UNCHANGED <<siteFixed, now, analysis_progress, research_configs, saved,
                   analysis_results>>

\* get_progress as a handler: a poll of a completed session copies its
\* results to the browser session
PollProgress(sid) ==
    /\ sid \in DOMAIN analysis_progress
    /\ sid \in DOMAIN analysis_status /\ analysis_status[sid] = "completed"
    /\ sid \in DOMAIN research_configs
    /\ analysis_results' = <<research_configs[sid]>>
    /\ UNCHANGED <<siteFixed, now, analysis_progress, analysis_status, research_configs,
                   threads, saved>>

ThreadStep(i) ==
    \/ T_Begin(i) \/ T_ReportCollecting(i) \/ T_CollectData(i) \/ T_ReportAnalysis(i)
    \/ T_LimitForWeb(i) \/ T_AnalyzeData(i) \/ T_ReportSummary(i)
    \/ T_GenerateSummary(i) \/ T_ReportSaving(i) \/ T_SaveResults(i)
    \/ T_StoreResults(i) \/ T_ReportComplete(i) \/ T_SetCompleted(i) \/ T_SetError(i)

NextSite ==
    \/ Tick
    \/ start_analysis
    \/ \E i \in 1..MaxRuns : ThreadStep(i)
    \/ \E sid \in DOMAIN analysis_status : PollProgress(sid)

SpecSite == InitSite /\ [][NextSite]_vars

-----------------------------------------------------------------------------
(* Properties of the server *)

Terminal == {"completed", "error"}

SameEntry(d, e, key) ==
    /\ (key \in DOMAIN d) <=> (key \in DOMAIN e)
    /\ key \in DOMAIN d => d[key] = e[key]

\* C11: once the status stored for a session id is 'completed' or 'error', no
\* step of any run changes that status or the progress entry of that id.
C11_TerminalIsAbsorbing ==
    [][\A sid \in DOMAIN analysis_status :
           analysis_status[sid] \in Terminal =>
               /\ SameEntry(analysis_status, analysis_status', sid)
               /\ SameEntry(analysis_progress, analysis_progress', sid)]_vars

\* C12: any two calls of start_analysis obtain distinct session ids.
C12_RunIdsDistinct ==
    \A i, j \in 1..Len(threads) : i # j => threads[i].sid # threads[j].sid

\* C13: a poll of a session id start_analysis has returned is answered with a
\* progress record, never with 'Session not found'.
C13_StartedRunCanBePolled ==
    \A i \in 1..Len(threads) : get_progress(threads[i].sid).code = 200

\* C14: if the status of a session id is 'completed', its result entry is
\* stored, and for an analysis it was stored after save_results had returned.
C14_CompletedHasStoredResult ==
    \A sid \in DOMAIN analysis_status :
        analysis_status[sid] = "completed" =>
            /\ sid \in DOMAIN research_configs
            /\ sid.prefix = "analysis" => sid \in saved

\* An analysis has completed while a second one, started later, is running.
C14_Witness ==
    \E i, j \in 1..Len(threads) :
        /\ threads[i].sid # threads[j].sid
        /\ threads[i].pc = "done"
        /\ analysis_status[threads[i].sid] = "completed"
        /\ threads[j].pc = "save"

\* C15: a sweep of the stores leaves no progress, status or result entry of a
\* session id older than the retention window.
C15_SweepEvictsOld ==
    LET swept == cleanup_old_sessions(analysis_progress, analysis_status,
                                      research_configs, now)
    IN  \A sid \in DOMAIN swept.progress \cup DOMAIN swept.status \cup DOMAIN swept.configs :
            now - sid.t <= RetentionSeconds


-----------------------------------------------------------------------------
(* ClinicalTrialAnalyzer: the calls of model.generate_content one process  *)
(* issues. GEMINI_AVAILABLE is fixed at import; every call of the model    *)
(* either answers or raises, and a raise is either a rate-limit error of   *)
(* the service or some other error.                                        *)

MaxCalls == 3           \* calls after which the process begins no further analysis

CallOutcomes == {"ok", "rate_limit", "error"}

\* The batches of records a run hands to the analyzer.
Batches == SeqsUpTo(Studies, MaxPerSource)

analyzerFixed == <<collectors, research_config, api, now, pc, all_data, merged_data,
                   relevant_data, runner, agent, llm, session_id, analysis_progress,
                   analysis_status, research_configs, forwarded, reported, threads,
                   saved, analysis_results, max_results, http_requests, fetched,
                   research_topic, fda_query, entered, fetch_calls>>

InitAnalyzer ==
    /\ collectors = RegistrationOrder
    /\ research_config = RunRequest("optimized")
    /\ api = [clinical_trials |-> Failed, pubmed |-> Failed, fda |-> NoFdaAnswer]
    /\ now = 0
    /\ pc = "start"
    /\ all_data = <<>>
    /\ merged_data = <<>>
    /\ relevant_data = <<>>
    /\ runner = "optimized"
    /\ agent = TRUE
    /\ llm \in {"unavailable", "ok"}
    /\ RunnerIdle

\* A run of the process reaches analyze_data with its records.
A_BeginAnalysis ==
    /\ rpc \in {"idle", "done"}
    /\ gemini_calls < MaxCalls
    /\ data_records' \in Batches
    /\ analyses' = <<>>
    /\ summary' = ""
    /\ rpc' = "analyze"
    /\ UNCHANGED <<analyzerFixed, gemini_calls, rate_limited>>

\* model.generate_content(prompt): the call is issued, and answers or raises.
GenerateContent(outcome) ==
    /\ gemini_calls' = gemini_calls + 1
    /\ rate_limited' = (rate_limited \/ outcome = "rate_limit")

\* Mutant of A_AnalyzeTrial: analyze_trial has no except clause, so a call that
\* raises ends the loop of analyze_data with the analyses made so far.
A_AnalyzeTrial_abort ==
    /\ rpc = "analyze"
    /\ Len(analyses) < Len(data_records)
    /\ LET trial_data == data_records[Len(analyses) + 1]
       IN  IF llm = "unavailable"
           THEN /\ analyses' = Append(analyses, analyze_trial(trial_data, "unavailable"))
                /\ UNCHANGED <<gemini_calls, rate_limited, rpc>>
           ELSE \E outcome \in CallOutcomes :
                    /\ GenerateContent(outcome)
                    /\ IF outcome = "ok"
                       THEN /\ analyses' = Append(analyses, analyze_trial(trial_data, "ok"))
                            /\ UNCHANGED rpc
                       ELSE /\ UNCHANGED analyses
                            /\ rpc' = "summarize"
    /\ UNCHANGED <<analyzerFixed, data_records, summary>>

\* One iteration of the loop of analyze_data: analyze_trial on the next record.
\* Without the library the basic analysis is returned; with it the model is
\* called, and any exception becomes an 'Analysis failed' record.
A_AnalyzeTrial ==
    /\ rpc = "analyze"
    /\ Len(analyses) < Len(data_records)
    /\ LET trial_data == data_records[Len(analyses) + 1]
       IN  IF llm = "unavailable"
           THEN /\ analyses' = Append(analyses, analyze_trial(trial_data, "unavailable"))
                /\ UNCHANGED <<gemini_calls, rate_limited>>
           ELSE \E outcome \in CallOutcomes :
                    /\ GenerateContent(outcome)
                    /\ analyses' = Append(analyses,
                           analyze_trial(trial_data,
                                         IF outcome = "ok" THEN "ok" ELSE "failing"))
    /\ UNCHANGED <<analyzerFixed, data_records, summary, rpc>>

\* The loop of analyze_data ends.
A_BatchDone ==
    /\ rpc = "analyze"
    /\ Len(analyses) = Len(data_records)
    /\ rpc' = "summarize"
    /\ UNCHANGED <<analyzerFixed, data_records, analyses, summary, gemini_calls,
                   rate_limited>>

\* generate_landscape_summary: the fallback without the library; no call when
\* no analysis is valid; otherwise the model is called and any exception
\* leads to the fallback.
A_GenerateSummary ==
    /\ rpc = "summarize"
    /\ LET valid_analyses ==
               SelectSeq(analyses, LAMBDA a : /\ a.title # <<>>
                                              /\ a.analysis # "Analysis failed:")
       IN  IF llm = "unavailable" \/ valid_analyses = <<>>
           THEN /\ summary' = generate_landscape_summary(analyses, llm)
                /\ UNCHANGED <<gemini_calls, rate_limited>>
           ELSE \E outcome \in CallOutcomes :
                    /\ GenerateContent(outcome)
                    /\ summary' = generate_landscape_summary(analyses,
                                      IF outcome = "ok" THEN "ok" ELSE "failing")
    /\ rpc' = "done"
    /\ UNCHANGED <<analyzerFixed, data_records, analyses>>

NextAnalyzer ==
    \/ A_BeginAnalysis
    \/ A_AnalyzeTrial
    \/ A_BatchDone
    \/ A_GenerateSummary

SpecAnalyzer == InitAnalyzer /\ [][NextAnalyzer]_vars

-----------------------------------------------------------------------------
(* Properties of the analyzer *)

\* C16: once a call of the external model has failed with a rate-limit
\* error, no later step of the process issues another call of the model.
C16_NoCallAfterRateLimit ==
    [][rate_limited => gemini_calls' = gemini_calls]_vars


-----------------------------------------------------------------------------
(* The source clients: the HTTP requests one fetch of each client issues   *)
(* and how many records it returns. A record list is held as its length;   *)
(* an endpoint answers with no more records than the limit it was asked    *)
(* for, and a failed call yields no records.                               *)

PageMaximum == 100     \* min(self.max_results, 100)

SafetyMaximum == 50    \* min(self.max_results, 50)

MaxExcess == 1         \* how far a configured max_results exceeds the page maximum, at most

\* The max_results a configuration may give a client.
ConfiguredValues ==
    {1, SafetyMaximum, SafetyMaximum + 1, PageMaximum, PageMaximum + MaxExcess}

\* How many records an endpoint answers with when asked for at most limit.
ReturnCounts(limit) == {n \in {0, 1, limit} : n <= limit}

\* ClinicalTrialsCollector.build_query_params
build_query_params(configured) ==
    [pageSize |-> IntText(Min(configured, PageMaximum))]

\* The limit parameters of the three FDA requests
approvals_limit(configured) == configured
safety_limit(configured) == Min(configured, SafetyMaximum)
recalls_limit(configured) == Min(configured, SafetyMaximum)

fetchFixed == <<collectors, research_config, api, now, pc, all_data, merged_data,
                relevant_data, runner, agent, llm, rpc, session_id, analysis_progress,
                analysis_status, research_configs, data_records, forwarded, analyses,
                summary, reported, threads, saved, analysis_results, gemini_calls,
                rate_limited, max_results, research_topic, fda_query, entered,
                fetch_calls>>

InitFetch ==
    /\ collectors = RegistrationOrder
    /\ research_config = RunRequest("optimized")
    /\ api = [clinical_trials |-> Failed, pubmed |-> Failed, fda |-> NoFdaAnswer]
    /\ now = 0
    /\ pc = "start"
    /\ all_data = <<>>
    /\ merged_data = <<>>
    /\ relevant_data = <<>>
    /\ runner = "optimized"
    /\ agent = TRUE
    /\ llm = "ok"
    /\ rpc = "idle"
    /\ session_id = -1
    /\ analysis_progress = EmptyDict
    /\ analysis_status = EmptyDict
    /\ research_configs = EmptyDict
    /\ data_records = <<>>
    /\ forwarded = <<>>
    /\ analyses = <<>>
    /\ summary = ""
    /\ reported = <<>>
    /\ threads = <<>>
    /\ saved = {}
    /\ analysis_results = <<>>
    /\ gemini_calls = 0
    /\ rate_limited = FALSE
    /\ max_results \in [clinical_trials : ConfiguredValues,
                        pubmed : ConfiguredValues,
                        fda : ConfiguredValues]
    /\ http_requests = <<>>
    /\ fetched = EmptyDict
    /\ research_topic = NoInput
    /\ fda_query = NoQuery
    /\ entered = <<>>
    /\ fetch_calls = EmptyDict

\* The clients are called in registration order, each once.
NextSource ==
    IF Len(RegistrationOrder) > Cardinality(DOMAIN fetched)
    THEN RegistrationOrder[Cardinality(DOMAIN fetched) + 1]
    ELSE "none"

\* ClinicalTrialsCollector.fetch_trials: one request with the clamped page
\* size; the studies that mention a keyword are returned.
F_FetchTrials ==
    /\ NextSource = "clinical_trials"
    /\ LET params == build_query_params(max_results.clinical_trials)
       IN  /\ http_requests' = Append(http_requests,
                  [source |-> "clinical_trials", endpoint |-> "studies",
                   pageSize |-> params.pageSize])
           /\ \E studies \in ReturnCounts(Min(max_results.clinical_trials, PageMaximum)) :
              \E filtered_studies \in {0, studies} :
                  fetched' = Put(fetched, "clinical_trials", filtered_studies)
    /\ UNCHANGED fetchFixed

\* PubMedCollector.fetch_data_for_research: the search asks for retmax ids;
\* with no ids nothing else is requested, otherwise the details of the ids
\* are fetched and the articles that parse are returned.
F_FetchPubmed ==
    /\ NextSource = "pubmed"
    /\ LET search == [source |-> "pubmed", endpoint |-> "esearch.fcgi",
                      retmax |-> max_results.pubmed]
       IN  \E pmids \in ReturnCounts(search.retmax) :
               IF pmids = 0
               THEN /\ http_requests' = Append(http_requests, search)
                    /\ fetched' = Put(fetched, "pubmed", 0)
               ELSE /\ http_requests' = http_requests \o
                           <<search, [source |-> "pubmed", endpoint |-> "efetch.fcgi",
                                      ids |-> pmids]>>
                    /\ \E articles \in ReturnCounts(pmids) :
                           fetched' = Put(fetched, "pubmed", articles)
    /\ UNCHANGED fetchFixed

\* FDACollector.fetch_data_for_research: the approvals, the safety reports
\* and the recalls are requested in turn and their records concatenated.
F_FetchFda ==
    /\ NextSource = "fda"
    /\ LET configured == max_results.fda
       IN  /\ http_requests' = http_requests \o
                  <<[source |-> "fda", endpoint |-> "/drug/label.json",
                     limit |-> approvals_limit(configured)],
                    [source |-> "fda", endpoint |-> "/drug/event.json",
                     limit |-> safety_limit(configured)],
                    [source |-> "fda", endpoint |-> "/drug/enforcement.json",
                     limit |-> recalls_limit(configured)]>>
           /\ \E approvals \in ReturnCounts(approvals_limit(configured)) :
              \E safety_data \in ReturnCounts(safety_limit(configured)) :
              \E recalls \in ReturnCounts(recalls_limit(configured)) :
                  fetched' = Put(fetched, "fda", approvals + safety_data + recalls)
    /\ UNCHANGED fetchFixed

NextFetch ==
    \/ F_FetchTrials
    \/ F_FetchPubmed
    \/ F_FetchFda

SpecFetch == InitFetch /\ [][NextFetch]_vars

-----------------------------------------------------------------------------
(* Properties of the source clients *)

\* int(text) for the text of a natural number
RECURSIVE IntOf(_)
IntOf(text) ==
    IF text = <<>> THEN 0
    ELSE LET d == CHOOSE i \in 1..10 : Digits[i] = text[Len(text)]
         IN  10 * IntOf(SubSeq(text, 1, Len(text) - 1)) + (d - 1)

\* The requests that carry a result-count parameter, and its value
HasCount(request) == request.endpoint # "efetch.fcgi"

CountOf(request) ==
    IF request.source = "clinical_trials" THEN IntOf(request.pageSize)
    ELSE IF request.source = "pubmed" THEN request.retmax
    ELSE request.limit

\* C17: the result-count parameter of every request a source client has
\* issued is at most the page maximum of 100, whatever max_results is
\* configured.
C17_PageSizeClamped ==
    \A i \in 1..Len(http_requests) :
        HasCount(http_requests[i]) => CountOf(http_requests[i]) <= PageMaximum

\* C18: a client's fetch returns no more records than its configured
\* max_results (the endpoints answer with no more than they are asked for).
C18_ReturnedWithinMaxResults ==
    \A source \in DOMAIN fetched : fetched[source] <= max_results[source]


-----------------------------------------------------------------------------
(* Properties of the collection: failed calls and record identity *)

\* Some HTTP call of the source's client failed in this run.
AnyCallFailed(source_name) ==
    IF source_name = "clinical_trials" THEN ~api.clinical_trials.ok
    ELSE IF source_name = "pubmed" THEN ~api.pubmed.ok
    ELSE ~api.fda.approvals.ok \/ ~api.fda.safety.ok \/ ~api.fda.recalls.ok

\* C19: when any HTTP call of a source's client has failed, the client's
\* fetch returned the empty list (and raised nothing), so the source's entry
\* of the collection is empty.
C19_FailedCallEmptiesFetch ==
    Collected =>
        \A i \in 1..Len(all_data) :
            AnyCallFailed(all_data[i].k) => all_data[i].v = <<>>

\* The pair (source, native id) of a merged record
SourceAndId(record) == <<DictGet(record, "data_source", <<>>), NativeId(record)>>

\* C20: no two records of merged have the same pair (source, native id).
C20_MergedIdsUnique ==
    Merged =>
        \A i \in 1..Len(merged_data) : \A j \in 1..Len(merged_data) :
            i # j => SourceAndId(merged_data[i]) # SourceAndId(merged_data[j])


-----------------------------------------------------------------------------
(* Properties of the record metadata *)

\* The merged record made from record j of the i-th source list
MergedFrom(i, j) == merged_data[SumLen(SubSeq(all_data, 1, i - 1)) + j]

\* C21: a metadata field a record already carries when its source client
\* returns it (data_source, research_area, research_type, original_topic,
\* collection_timestamp) still has that value after the merge: the merge does
\* not write the field a second time.
C21_MetadataWrittenOnce ==
    Merged =>
        \A i \in 1..Len(all_data) : \A j \in 1..Len(all_data[i].v) :
            \A field \in MetaKeys :
                HasKey(all_data[i].v[j], field) =>
                    DictGet(MergedFrom(i, j), field, <<>>)
                        = DictGet(all_data[i].v[j], field, <<>>)


-----------------------------------------------------------------------------
(* Properties of a run in which only the trials source returns records *)

\* The trials source is registered and no other source returned a record.
OnlyTrialsReturned ==
    /\ \E i \in 1..Len(collectors) : collectors[i] = "clinical_trials"
    /\ \A i \in 1..Len(all_data) :
           all_data[i].k # "clinical_trials" => all_data[i].v = <<>>

\* The studies of the registry's answer, as it sent them
RawTrials == IF api.clinical_trials.ok THEN api.clinical_trials.items ELSE <<>>

\* A keyword of the request occurs in the text of the raw record.
KeywordOccurs(study) == AnyKeywordIn(LowerKeywords(research_config), Lower(PyStr(study)))

\* The raw record has a status, and it names an active state.
HasActiveStatus(study) ==
    /\ OverallStatus(study) # PyNone
    /\ \E i \in 1..Len(ActiveStatuses) :
           Contains(Lower(OverallStatus(study)), ActiveStatuses[i])

TaggedWithTrials(records) ==
    \A i \in 1..Len(records) :
        DictGet(records[i], "data_source", <<>>) = SourceText["clinical_trials"]

\* C22 as stated: when only the trials source returns records, filtered holds
\* exactly the raw trial records in which a keyword occurs, each tagged with
\* the trials source.
C22_FilteredIsKeywordMatches ==
    (pc = "filtered" /\ OnlyTrialsReturned) =>
        /\ [i \in 1..Len(relevant_data) |-> Payload(relevant_data[i])]
               = SelectSeq(RawTrials, KeywordOccurs)
        /\ TaggedWithTrials(relevant_data)

\* C22, amended: when only the trials source returns records, filtered holds
\* exactly the raw trial records in which a keyword occurs and whose status is
\* active, in their order and each tagged with the trials source; and it is
\* empty when a record in which a keyword occurs has a null status.
C22_FilteredIsActiveKeywordMatches ==
    (pc = "filtered" /\ OnlyTrialsReturned) =>
        LET matching == SelectSeq(RawTrials, KeywordOccurs)
            expected == IF \E i \in 1..Len(matching) : OverallStatus(matching[i]) = PyNone
                        THEN <<>>
                        ELSE SelectSeq(matching, HasActiveStatus)
        IN  /\ [i \in 1..Len(relevant_data) |-> Payload(relevant_data[i])] = expected
            /\ TaggedWithTrials(relevant_data)

\* The registry answered with two studies and one of them is in filtered.
C22_Witness ==
    /\ pc = "filtered"
    /\ OnlyTrialsReturned
    /\ Len(RawTrials) = 2
    /\ Len(relevant_data) = 1


-----------------------------------------------------------------------------
(* The research request: research() of the web form, ResearchInterface and *)
(* KeywordGenerator of the command line, and the FDA query built from it   *)

MaxPieces == 2         \* comma-separated pieces in the answer of the keyword model, at most

\* text.strip(), for spaces
RECURSIVE LStrip(_)
LStrip(text) == IF text # <<>> /\ text[1] = " " THEN LStrip(Tail(text)) ELSE text

RECURSIVE RStrip(_)
RStrip(text) ==
    IF text # <<>> /\ text[Len(text)] = " " THEN RStrip(SubSeq(text, 1, Len(text) - 1))
    ELSE text

Strip(text) == RStrip(LStrip(text))

\* text.split(): the words between spaces
RECURSIVE Split(_)
Split(text) ==
    LET t == LStrip(text)
    IN  IF t = <<>> THEN <<>>
        ELSE LET n == IF \E i \in 1..Len(t) : t[i] = " "
                      THEN CHOOSE i \in 1..Len(t) :
                               t[i] = " " /\ \A j \in 1..(i - 1) : t[j] # " "
                      ELSE Len(t) + 1
             IN  <<SubSeq(t, 1, n - 1)>> \o Split(SubSeq(t, n, Len(t)))

\* seq[:n]
Take(seq, n) == SubSeq(seq, 1, Min(n, Len(seq)))

\* list(set(items))[:12]: the distinct items in any order Python may give
\* them, cut to twelve
Orderings(items) ==
    LET n == Min(Cardinality(items), 12)
    IN  {f \in [1..n -> items] : \A i \in 1..n : \A j \in 1..n : f[i] = f[j] => i = j}

\* generic_terms of generate_keywords_ai
generic_terms ==
    {<<"c","a","n","c","e","r">>, <<"t","u","m","o","r">>, <<"d","i","s","e","a","s","e">>, <<"t","r","i","a","l">>, <<"t","h","e","r","a","p","y">>,
     <<"t","r","e","a","t","m","e","n","t">>, <<"d","r","u","g">>, <<"m","e","d","i","c","a","t","i","o","n">>, <<"c","l","i","n","i","c","a","l">>,
     <<"s","t","u","d","y">>, <<"r","e","s","e","a","r","c","h">>, <<"p","a","t","i","e","n","t">>, <<"m","e","d","i","c","a","l">>,
     <<"h","e","a","l","t","h">>, <<"c","a","r","e">>, <<"m","e","d","i","c","i","n","e">>,
     <<"p","h","a","r","m","a","c","e","u","t","i","c","a","l">>}

\* keyword_mappings of _generate_keywords_fallback, in the order of the dict:
\* every area and sub-area of the source, each keyword list cut to its first
\* three keywords (the lists of the source hold 9 to 16).
keyword_mappings ==
    <<[area |-> <<"c","a","n","c","e","r">>, grouped |-> TRUE, keywords |-> <<>>,
       subcategories |->
          <<[name |-> <<"l","u","n","g">>,
             keywords |-> <<(<<"n","s","c","l","c">>),
                          (<<"n","o","n","-","s","m","a","l","l"," ","c","e","l","l"," ","l","u","n","g"," ","c","a","n","c","e","r">>),
                          (<<"s","c","l","c">>)>>],
            [name |-> <<"b","r","e","a","s","t">>,
             keywords |-> <<(<<"h","e","r","2","-","p","o","s","i","t","i","v","e">>),
                          (<<"h","e","r","2","-","n","e","g","a","t","i","v","e">>),
                          (<<"t","r","i","p","l","e","-","n","e","g","a","t","i","v","e">>)>>],
            [name |-> <<"c","o","l","o","r","e","c","t","a","l">>,
             keywords |-> <<(<<"c","r","c">>),
                          (<<"c","o","l","o","r","e","c","t","a","l"," ","c","a","n","c","e","r">>),
                          (<<"k","r","a","s">>)>>],
            [name |-> <<"m","e","l","a","n","o","m","a">>,
             keywords |-> <<(<<"b","r","a","f">>),
                          (<<"m","e","k">>),
                          (<<"v","e","m","u","r","a","f","e","n","i","b">>)>>],
            [name |-> <<"p","r","o","s","t","a","t","e">>,
             keywords |-> <<(<<"c","a","s","t","r","a","t","i","o","n","-","r","e","s","i","s","t","a","n","t">>),
                          (<<"c","r","p","c">>),
                          (<<"a","n","d","r","o","g","e","n"," ","r","e","c","e","p","t","o","r">>)>>],
            [name |-> <<"l","e","u","k","e","m","i","a">>,
             keywords |-> <<(<<"a","m","l">>),
                          (<<"a","l","l">>),
                          (<<"c","l","l">>)>>],
            [name |-> <<"l","y","m","p","h","o","m","a">>,
             keywords |-> <<(<<"d","l","b","c","l">>),
                          (<<"d","i","f","f","u","s","e"," ","l","a","r","g","e"," ","b","-","c","e","l","l"," ","l","y","m","p","h","o","m","a">>),
                          (<<"h","o","d","g","k","i","n">>)>>]>>],
      [area |-> <<"a","l","z","h","e","i","m","e","r">>, grouped |-> FALSE, subcategories |-> <<>>,
       keywords |-> <<(<<"a","m","y","l","o","i","d"," ","b","e","t","a">>),
                    (<<"t","a","u"," ","p","r","o","t","e","i","n">>),
                    (<<"c","o","g","n","i","t","i","v","e"," ","d","e","c","l","i","n","e">>)>>],
      [area |-> <<"p","a","r","k","i","n","s","o","n">>, grouped |-> FALSE, subcategories |-> <<>>,
       keywords |-> <<(<<"d","o","p","a","m","i","n","e">>),
                    (<<"l","e","v","o","d","o","p","a">>),
                    (<<"c","a","r","b","i","d","o","p","a">>)>>],
      [area |-> <<"m","u","l","t","i","p","l","e"," ","s","c","l","e","r","o","s","i","s">>, grouped |-> FALSE, subcategories |-> <<>>,
       keywords |-> <<(<<"m","s">>),
                    (<<"r","e","l","a","p","s","i","n","g","-","r","e","m","i","t","t","i","n","g">>),
                    (<<"r","r","m","s">>)>>],
      [area |-> <<"d","i","a","b","e","t","e","s">>, grouped |-> FALSE, subcategories |-> <<>>,
       keywords |-> <<(<<"t","y","p","e"," ","2"," ","d","i","a","b","e","t","e","s">>),
                    (<<"t","2","d","m">>),
                    (<<"g","l","p","-","1">>)>>],
      [area |-> <<"c","a","r","d","i","o","v","a","s","c","u","l","a","r">>, grouped |-> FALSE, subcategories |-> <<>>,
       keywords |-> <<(<<"h","e","a","r","t"," ","f","a","i","l","u","r","e">>),
                    (<<"h","f","r","e","f">>),
                    (<<"h","f","p","e","f">>)>>],
      [area |-> <<"h","y","p","e","r","t","e","n","s","i","o","n">>, grouped |-> FALSE, subcategories |-> <<>>,
       keywords |-> <<(<<"b","l","o","o","d"," ","p","r","e","s","s","u","r","e">>),
                    (<<"s","y","s","t","o","l","i","c">>),
                    (<<"d","i","a","s","t","o","l","i","c">>)>>],
      [area |-> <<"r","h","e","u","m","a","t","o","i","d"," ","a","r","t","h","r","i","t","i","s">>, grouped |-> FALSE, subcategories |-> <<>>,
       keywords |-> <<(<<"r","a">>),
                    (<<"d","m","a","r","d">>),
                    (<<"d","i","s","e","a","s","e","-","m","o","d","i","f","y","i","n","g"," ","a","n","t","i","r","h","e","u","m","a","t","i","c"," ","d","r","u","g">>)>>],
      [area |-> <<"p","s","o","r","i","a","s","i","s">>, grouped |-> FALSE, subcategories |-> <<>>,
       keywords |-> <<(<<"p","s","a">>),
                    (<<"p","s","o","r","i","a","t","i","c"," ","a","r","t","h","r","i","t","i","s">>),
                    (<<"b","i","o","l","o","g","i","c">>)>>],
      [area |-> <<"a","s","t","h","m","a">>, grouped |-> FALSE, subcategories |-> <<>>,
       keywords |-> <<(<<"b","r","o","n","c","h","o","d","i","l","a","t","o","r">>),
                    (<<"i","n","h","a","l","e","d"," ","c","o","r","t","i","c","o","s","t","e","r","o","i","d">>),
                    (<<"i","c","s">>)>>],
      [area |-> <<"c","o","p","d">>, grouped |-> FALSE, subcategories |-> <<>>,
       keywords |-> <<(<<"c","h","r","o","n","i","c"," ","o","b","s","t","r","u","c","t","i","v","e"," ","p","u","l","m","o","n","a","r","y"," ","d","i","s","e","a","s","e">>),
                    (<<"b","r","o","n","c","h","o","d","i","l","a","t","o","r">>),
                    (<<"l","o","n","g","-","a","c","t","i","n","g"," ","m","u","s","c","a","r","i","n","i","c"," ","a","n","t","a","g","o","n","i","s","t">>)>>],
      [area |-> <<"c","o","v","i","d">>, grouped |-> FALSE, subcategories |-> <<>>,
       keywords |-> <<(<<"s","a","r","s","-","c","o","v","-","2">>),
                    (<<"c","o","r","o","n","a","v","i","r","u","s">>),
                    (<<"m","r","n","a"," ","v","a","c","c","i","n","e">>)>>],
      [area |-> <<"h","i","v">>, grouped |-> FALSE, subcategories |-> <<>>,
       keywords |-> <<(<<"h","u","m","a","n"," ","i","m","m","u","n","o","d","e","f","i","c","i","e","n","c","y"," ","v","i","r","u","s">>),
                    (<<"a","n","t","i","r","e","t","r","o","v","i","r","a","l">>),
                    (<<"a","r","t">>)>>],
      [area |-> <<"c","y","s","t","i","c"," ","f","i","b","r","o","s","i","s">>, grouped |-> FALSE, subcategories |-> <<>>,
       keywords |-> <<(<<"c","f">>),
                    (<<"c","y","s","t","i","c"," ","f","i","b","r","o","s","i","s"," ","t","r","a","n","s","m","e","m","b","r","a","n","e"," ","c","o","n","d","u","c","t","a","n","c","e"," ","r","e","g","u","l","a","t","o","r">>),
                    (<<"c","f","t","r">>)>>],
      [area |-> <<"s","i","c","k","l","e"," ","c","e","l","l">>, grouped |-> FALSE, subcategories |-> <<>>,
       keywords |-> <<(<<"s","i","c","k","l","e"," ","c","e","l","l"," ","d","i","s","e","a","s","e">>),
                    (<<"s","c","d">>),
                    (<<"h","e","m","o","g","l","o","b","i","n">>)>>]>>

RECURSIVE FirstThrees(_)
FirstThrees(subcategories) ==
    IF subcategories = <<>> THEN <<>>
    ELSE Take(subcategories[1].keywords, 3) \o FirstThrees(Tail(subcategories))

drug_name_patterns ==
    <<(<<"m","a","b">>),
        (<<"n","i","b">>),
        (<<"t","i","n","i","b">>),
        (<<"u","m","a","b">>),
        (<<"i","z","u","m","a","b">>),
        (<<"o","m","a","b">>),
        (<<"u","m","a","b">>)>>

known_drug_names ==
    {<<"k","e","y","t","r","u","d","a">>, <<"h","u","m","i","r","a">>, <<"o","z","e","m","p","i","c">>, <<"w","e","g","o","v","y">>,
     <<"e","l","i","q","u","i","s">>, <<"x","a","r","e","l","t","o">>}

\* The disease-specific terms added to the context keywords
DiseaseTerms(topic_lower) ==
    IF AnyKeywordIn(<<(<<"c","a","n","c","e","r">>),
        (<<"t","u","m","o","r">>),
        (<<"o","n","c","o","l","o","g","y">>)>>, topic_lower)
    THEN {<<"c","l","i","n","i","c","a","l"," ","t","r","i","a","l">>, <<"p","h","a","s","e">>, <<"s","a","f","e","t","y">>, <<"e","f","f","i","c","a","c","y">>}
    ELSE IF AnyKeywordIn(<<(<<"d","i","a","b","e","t","e","s">>),
        (<<"d","i","a","b","e","t","i","c">>)>>, topic_lower)
    THEN {<<"g","l","u","c","o","s","e">>, <<"i","n","s","u","l","i","n">>, <<"m","e","t","a","b","o","l","i","c">>, <<"g","l","y","c","e","m","i","c">>}
    ELSE IF AnyKeywordIn(<<(<<"a","l","z","h","e","i","m","e","r">>),
        (<<"d","e","m","e","n","t","i","a">>)>>, topic_lower)
    THEN {<<"c","o","g","n","i","t","i","v","e">>, <<"m","e","m","o","r","y">>, <<"a","m","y","l","o","i","d">>, <<"t","a","u">>}
    ELSE IF AnyKeywordIn(<<(<<"a","r","t","h","r","i","t","i","s">>),
        (<<"i","n","f","l","a","m","m","a","t","o","r","y">>)>>, topic_lower)
    THEN {<<"i","n","f","l","a","m","m","a","t","i","o","n">>, <<"i","m","m","u","n","e">>, <<"a","u","t","o","i","m","m","u","n","e">>}
    ELSE {}

\* KeywordGenerator._generate_keywords_fallback: the lists it may return. The
\* first area of the table that occurs in the topic decides; without one, the
\* context keywords are the words that look like drug names, the disease
\* terms and the topic itself, less the terms of one or two characters.
generate_keywords_fallback(topic) ==
    LET topic_lower == Lower(topic)
        areas == SelectSeq(keyword_mappings, LAMBDA e : Contains(topic_lower, e.area))
        words == Split(topic)
        drug_words ==
            {Lower(words[i]) : i \in {j \in 1..Len(words) :
                \/ AnyKeywordIn(drug_name_patterns, Lower(words[j]))
                \/ Lower(words[j]) \in known_drug_names}}
        context_keywords == drug_words \cup DiseaseTerms(topic_lower) \cup {topic_lower}
    IN  IF areas # <<>>
        THEN IF areas[1].grouped
             THEN LET specific == SelectSeq(areas[1].subcategories,
                                      LAMBDA sub : Contains(topic_lower, sub.name))
                  IN  IF specific # <<>> THEN {specific[1].keywords}
                      ELSE {Take(FirstThrees(areas[1].subcategories), 10)}
             ELSE {Take(areas[1].keywords, 12)}
        ELSE Orderings({kw \in context_keywords : Len(kw) > 2})

\* KeywordGenerator.generate_keywords_ai: the fallback without the model or
\* when the call raises; otherwise the pieces of the answer, stripped and
\* lowered, less the empty and the generic ones, and the fallback when none
\* is left.
generate_keywords_ai(topic, gemini, answer) ==
    IF ~gemini \/ ~answer.ok THEN generate_keywords_fallback(topic)
    ELSE LET keywords ==
                 SelectSeq([i \in 1..Len(answer.pieces) |-> Lower(Strip(answer.pieces[i]))],
                           LAMBDA kw : kw # <<>> /\ kw \notin generic_terms)
         IN  IF keywords = <<>> THEN generate_keywords_fallback(topic)
             ELSE {keywords}

\* KeywordGenerator.generate_drug_pipeline_keywords
generate_drug_pipeline_keywords(drug_name, indication) ==
    <<Lower(drug_name)>>
        \o <<(<<"c","l","i","n","i","c","a","l"," ","t","r","i","a","l">>),
        (<<"p","h","a","s","e">>),
        (<<"s","a","f","e","t","y">>),
        (<<"e","f","f","i","c","a","c","y">>),
        (<<"p","h","a","r","m","a","c","o","k","i","n","e","t","i","c","s">>),
        (<<"p","h","a","r","m","a","c","o","d","y","n","a","m","i","c","s">>),
        (<<"d","o","s","e">>),
        (<<"a","d","m","i","n","i","s","t","r","a","t","i","o","n">>)>>
        \o (IF indication # <<>>
            THEN <<Lower(indication)>> \o <<(<<"t","r","e","a","t","m","e","n","t">>),
        (<<"t","h","e","r","a","p","y">>)>>
            ELSE <<>>)
        \o <<(<<"m","e","c","h","a","n","i","s","m"," ","o","f"," ","a","c","t","i","o","n">>),
        (<<"t","a","r","g","e","t">>),
        (<<"r","e","c","e","p","t","o","r">>),
        (<<"p","a","t","h","w","a","y">>),
        (<<"b","i","o","m","a","r","k","e","r">>),
        (<<"e","n","d","p","o","i","n","t">>),
        (<<"o","u","t","c","o","m","e">>),
        (<<"a","d","v","e","r","s","e"," ","e","v","e","n","t">>),
        (<<"s","i","d","e"," ","e","f","f","e","c","t">>),
        (<<"t","o","l","e","r","a","b","i","l","i","t","y">>)>>

\* ResearchInterface.generate_research_config: the configurations it may
\* return. A topic request has no drug_name and no indication key; every
\* reader uses .get(), for which the missing key and '' count the same.
generate_research_config(input, gemini, answer) ==
    IF input.research_type = "pipeline"
    THEN {[name |-> input.drug_name \o <<" ","P","i","p","e","l","i","n","e">>
                       \o (IF input.indication # <<>>
                           THEN <<" ","-"," ">> \o input.indication ELSE <<>>),
           keywords |-> generate_drug_pipeline_keywords(input.drug_name, input.indication),
           research_type |-> "pipeline",
           original_topic |-> input.topic,
           drug_name |-> input.drug_name,
           indication |-> input.indication]}
    ELSE {[name |-> input.topic,
           keywords |-> keywords,
           research_type |-> "topic",
           original_topic |-> input.topic,
           drug_name |-> <<>>,
           indication |-> <<>>] :
              keywords \in generate_keywords_ai(input.topic, gemini, answer)}

\* research(): the configuration the web form stores
research(form) ==
    [name |-> form.topic,
     research_type |-> form.research_type,
     original_topic |-> form.topic,
     drug_name |-> IF form.research_type = "pipeline" THEN form.drug_name ELSE <<>>,
     indication |-> IF form.research_type = "pipeline" THEN form.indication ELSE <<>>,
     keywords |-> <<Lower(form.topic)>>]

\* FDACollector.build_search_query. The text it builds is held as the query
\* the openFDA grammar reads from it: quoted keywords search every field, and
\* 'a OR b' and '(f) AND (a OR b)' combine the terms.
AnyField(keyword) == [field |-> "any", value |-> keyword]
GenericName(drug_name) == [field |-> "openfda.generic_name", value |-> drug_name]
IndicationsAndUsage(indication) == [field |-> "indications_and_usage", value |-> indication]

build_search_query(rc) ==
    LET query_terms ==
            [i \in 1..Len(rc.keywords) |-> AnyField(rc.keywords[i])]
                \o (IF rc.drug_name # <<>> THEN <<GenericName(rc.drug_name)>> ELSE <<>>)
                \o (IF rc.indication # <<>>
                    THEN <<IndicationsAndUsage(rc.indication)>> ELSE <<>>)
    IN  IF rc.drug_name # <<>>
        THEN [op |-> "AND", filter |-> GenericName(rc.drug_name), terms |-> query_terms]
        ELSE [op |-> "OR", terms |-> query_terms]

\* What the user may enter. The web form sends any combination of its
\* fields; get_research_input gives the topic as the drug name of a pipeline.
Topics ==
    {<<"M","S">>, <<"H","I","V">>, <<"l","u","n","g"," ","c","a","n","c","e","r">>, <<"c","a","n","c","e","r">>,
     <<"K","e","y","t","r","u","d","a">>, <<"t","u","m","o","r">>}

WebForms ==
    [topic : Topics, research_type : {"topic", "pipeline"},
     drug_name : {<<>>, Ka}, indication : {<<>>, Zed}]

CliInputs ==
    {[topic |-> topic, research_type |-> "topic", drug_name |-> <<>>, indication |-> <<>>] :
        topic \in Topics}
    \cup {[topic |-> topic, research_type |-> "pipeline", drug_name |-> topic,
           indication |-> indication] : topic \in Topics, indication \in {<<>>, Zed}}

\* response.text.split(','): at least one piece, '' for an empty answer
AiPieces == {<<>>, <<" ">>, <<"c","a","n","c","e","r">>, <<"P","D","-","1">>}

AiAnswers ==
    {[ok |-> FALSE, pieces |-> <<>>]}
    \cup {[ok |-> TRUE, pieces |-> pieces] :
             pieces \in SeqsUpTo(AiPieces, MaxPieces) \ {<<>>}}

NoRequest == Request(<<>>, <<>>)

requestFixed == <<collectors, api, now, pc, all_data, merged_data, relevant_data, runner,
                  agent, llm, session_id, analysis_progress, analysis_status,
                  research_configs, data_records, forwarded, analyses, summary, reported,
                  threads, saved, analysis_results, gemini_calls, rate_limited,
                  max_results, http_requests, fetched, research_topic, entered,
                  fetch_calls>>

InitRequest ==
    /\ collectors = RegistrationOrder
    /\ research_config = NoRequest
    /\ api = [clinical_trials |-> Failed, pubmed |-> Failed, fda |-> NoFdaAnswer]
    /\ now = 0
    /\ pc = "start"
    /\ all_data = <<>>
    /\ merged_data = <<>>
    /\ relevant_data = <<>>
    /\ runner \in {"web", "optimized"}
    /\ agent = TRUE
    /\ llm \in (IF runner = "web" THEN {"ok"} ELSE {"unavailable", "ok"})
    /\ rpc = "idle"
    /\ session_id = -1
    /\ analysis_progress = EmptyDict
    /\ analysis_status = EmptyDict
    /\ research_configs = EmptyDict
    /\ data_records = <<>>
    /\ forwarded = <<>>
    /\ analyses = <<>>
    /\ summary = ""
    /\ reported = <<>>
    /\ threads = <<>>
    /\ saved = {}
    /\ analysis_results = <<>>
    /\ gemini_calls = 0
    /\ rate_limited = FALSE
    /\ max_results = DefaultMaxResults
    /\ http_requests = <<>>
    /\ fetched = EmptyDict
    /\ research_topic \in (IF runner = "web" THEN WebForms ELSE CliInputs)
    /\ fda_query = NoQuery
    /\ entered = <<>>
    /\ fetch_calls = EmptyDict

\* research(): the web form is submitted.
R_Research ==
    /\ runner = "web" /\ rpc = "idle"
    /\ research_config' = research(research_topic)
    /\ rpc' = "configured"
    /\ UNCHANGED <<requestFixed, fda_query>>

\* ResearchInterface.generate_research_config on the command line
R_GenerateResearchConfig ==
    /\ runner = "optimized" /\ rpc = "idle"
    /\ \E answer \in AiAnswers :
           research_config' \in generate_research_config(research_topic, llm = "ok", answer)
    /\ rpc' = "configured"
    /\ UNCHANGED <<requestFixed, fda_query>>

\* FDACollector.fetch_drug_approvals builds its query from the request.
R_BuildSearchQuery ==
    /\ rpc = "configured"
    /\ fda_query' = build_search_query(research_config)
    /\ rpc' = "queried"
    /\ UNCHANGED <<requestFixed, research_config>>

NextRequest ==
    \/ R_Research
    \/ R_GenerateResearchConfig
    \/ R_BuildSearchQuery

SpecRequest == InitRequest /\ [][NextRequest]_vars

-----------------------------------------------------------------------------
(* Properties of the research request *)

\* The terms of a built query
QueryTerms(query) ==
    {query.terms[i] : i \in 1..Len(query.terms)}
        \cup (IF query.op = "AND" THEN {query.filter} ELSE {})

\* A record that matches exactly the terms of matched satisfies the query.
Satisfies(matched, query) ==
    LET some_term == \E i \in 1..Len(query.terms) : query.terms[i] \in matched
    IN  IF query.op = "AND" THEN query.filter \in matched /\ some_term ELSE some_term

\* The records told apart by the terms they match: none, one or two of them
MatchSets(query) ==
    {{}} \cup {{a, b} : a \in QueryTerms(query), b \in QueryTerms(query)}

\* C23: with a drug name, a record satisfies the FDA label query only if it
\* matches the drug-name filter and at least one keyword term; without a drug
\* name, exactly if it matches at least one keyword term.
C23_DrugNameNarrows ==
    rpc = "queried" =>
        \A matched \in MatchSets(fda_query) :
            LET keyword_hit ==
                    \E i \in 1..Len(research_config.keywords) :
                        AnyField(research_config.keywords[i]) \in matched
            IN  IF research_config.drug_name # <<>>
                THEN Satisfies(matched, fda_query) =>
                         /\ GenericName(research_config.drug_name) \in matched
                         /\ keyword_hit
                ELSE Satisfies(matched, fda_query) <=> keyword_hit

\* C24: every request that has been built has at least one keyword.
C24_KeywordsNonEmpty ==
    rpc \in {"configured", "queried"} => research_config.keywords # <<>>


-----------------------------------------------------------------------------
(* Properties of the collection: where records are discarded *)

\* The list collect_all_data stored for the source
EntryOf(source_name) ==
    all_data[CHOOSE i \in 1..Len(all_data) : all_data[i].k = source_name].v

\* C25: no source client discards records by keyword before the merge: the
\* list the collection holds for the trials source has every active study of
\* the registry's answer, whether or not a keyword occurs in it.
C25_NoKeywordDiscardBeforeMerge ==
    (/\ Collected
     /\ \E i \in 1..Len(all_data) : all_data[i].k = "clinical_trials"
     /\ \A i \in 1..Len(RawTrials) : OverallStatus(RawTrials[i]) # PyNone) =>
        [i \in 1..Len(EntryOf("clinical_trials")) |-> Payload(EntryOf("clinical_trials")[i])]
            = SelectSeq(RawTrials, HasActiveStatus)

-----------------------------------------------------------------------------
(* One pass, one attempt *)

PipelineStages == <<"collect", "analyze", "summarize", "save">>

\* The fetches of a run that has collected: one per registered source.
FetchedOnce ==
    /\ Len(fetch_calls) = Len(collectors)
    /\ \A i \in 1..Len(collectors) :
           fetch_calls[i].k = collectors[i] /\ fetch_calls[i].v = 1

-----------------------------------------------------------------------------
(* The status filter of the trials source *)

\* What the trials client gave collect_all_data, before the status filter
FetchedTrials == fetch_trials_for_research(research_config, api.clinical_trials)

\* C27: after the collection the trials entry holds, in their original order,
\* exactly the fetched trials whose overall status contains 'recruiting',
\* 'active' or 'enrolling' case-insensitively (a trial without a status is
\* dropped), and the entry of every other source is what its client
\* returned, not narrowed by status.
C27_ActiveTrialsExactlyInOrder ==
    Collected =>
        \A i \in 1..Len(all_data) :
            all_data[i].v =
                IF all_data[i].k = "clinical_trials"
                THEN SelectSeq(FetchedTrials, HasActiveStatus)
                ELSE IF all_data[i].k = "pubmed"
                THEN pubmed_fetch_data_for_research(research_config, api.pubmed)
                ELSE fda_fetch_data_for_research(research_config, api.fda)

-----------------------------------------------------------------------------
(* A failed source and an empty source *)

\* The answers of the run, with the source answering no records in place of
\* what it answered.
AnsweredEmpty(source_name) ==
    IF source_name = "clinical_trials" THEN [api EXCEPT !.clinical_trials = Answer(<<>>)]
    ELSE IF source_name = "pubmed" THEN [api EXCEPT !.pubmed = Answer(<<>>)]
    ELSE [api EXCEPT !.fda = [approvals |-> Answer(<<>>), safety |-> Answer(<<>>),
                              recalls |-> Answer(<<>>)]]

SummaryOf(i) == get_data_summary(all_data)[i]

\* C28: after the collection the result has exactly one key per registered
\* source; a source that failed has the empty list under its key and the
\* status 'no_data' with a count of 0 in the summary, and the whole result
\* is the one the collection gives when that source succeeds with zero
\* records: the two cases cannot be told apart in the collector's output.
C28_FailedLooksEmpty ==
    Collected =>
        /\ [i \in 1..Len(all_data) |-> all_data[i].k] = collectors
        /\ \A i \in 1..Len(all_data) :
               /\ SummaryOf(i).source = collectors[i]
               /\ SummaryOf(i).status = "no_data" <=> all_data[i].v = <<>>
               /\ SourceFailed(collectors[i]) =>
                      /\ all_data[i].v = <<>>
                      /\ SummaryOf(i).record_count = 0
                      /\ SummaryOf(i).status = "no_data"
                      /\ collect_all_data(collectors, research_config,
                                          AnsweredEmpty(collectors[i])) = all_data

\* One collection with both cases: the literature source failed, the FDA
\* source answered all three endpoints with no records, and the trials
\* source returned a record.
C28_Witness ==
    /\ pc = "collected"
    /\ collectors = RegistrationOrder
    /\ ~api.pubmed.ok
    /\ api.fda.approvals = Answer(<<>>) /\ api.fda.safety = Answer(<<>>)
    /\ api.fda.recalls = Answer(<<>>)
    /\ all_data[1].v # <<>> /\ all_data[2].v = <<>> /\ all_data[3].v = <<>>
    /\ SummaryOf(2) = [source |-> "pubmed", record_count |-> 0, status |-> "no_data"]
    /\ SummaryOf(3) = [source |-> "fda", record_count |-> 0, status |-> "no_data"]

-----------------------------------------------------------------------------
(* What a poll can see *)

\* C29: whenever a poll of a known session is answered, the response is a
\* consistent snapshot of the run: a response whose status is 'completed'
\* carries the step 'Complete' and the progress 100, and a response whose
\* step is 'Error' carries the status 'error'.
C29_PollSnapshotConsistent ==
    \A sid \in DOMAIN analysis_progress :
        LET response == get_progress(sid)
        IN  /\ response.status = "completed" =>
                   response.step = "Complete" /\ response.progress = 100
            /\ response.step = "Error" => response.status = "error"

-----------------------------------------------------------------------------
(* One analysis per record *)

====
